---- MODULE Spec2Model ----
(***************************************************************************)
(* A model of FileOrganizer (src/file_organizer.py): pairing of vouchers   *)
(* and formal invoices, classification into buckets, naming, and placement *)
(* of the files of one batch; and of the process-wide state the tasks of   *)
(* one process share while they extract and analyse their files            *)
(* (src/ocr_handler.py, src/invoice_analyzer.py).                          *)
(*                                                                         *)
(* Representation.                                                         *)
(*   - A Python str whose characters matter (subtype, merchant,            *)
(*     description) is a sequence of one-character tokens.  CJK characters *)
(*     are written in pinyin: "di" is U+6EF4, "gong" is U+516C, "de" is    *)
(*     U+7684, "de2" is U+5FB7, "chu" is U+51FA and "chu3" is U+5904.      *)
(*   - A date string is a sequence of tokens: <<>> is "", and              *)
(*     <<"2024","01","31">> is "2024-01-31".                               *)
(*   - A file or folder name is the sequence of the parts that the code    *)
(*     joins with "_"; a path is [parent, stem, suffix].                   *)
(*   - An amount is an integer number of yuan.                             *)
(*   - An InvoiceInfo object is identified by its index in the batch       *)
(*     (the code uses id()).                                               *)
(***************************************************************************)
EXTENDS Integers, Sequences, FiniteSets, TLC

VARIABLES
  infos,          \* the batch: Seq of InvoiceInfo (file_path is mutable)
  pc,             \* position in organize: "start", "group", "move", "done", and
                  \* "raised" when an exception has left organize, "summarized"
                  \* when the caller has computed the summary of the result
  paired_groups,  \* result of _pair_vouchers_and_invoices: Seq of Seq of index
  scores,         \* every _calculate_match_score call made: <<v, i>> -> score
  gi,             \* index of the group being processed (for group in paired_groups)
  idx,            \* enumerate(group, 1) position inside the group
  group_date,     \* local of organize
  category_name,  \* local of organize
  folder_name,    \* local of organize
  categorized,    \* defaultdict(list): bucket name -> Seq of index
  copy_mode,      \* FileOrganizer.copy_mode
  fs,             \* paths that exist on disk
  io_log,         \* the shutil.move / shutil.copy2 calls made, each with the path
                  \* organize computed (target), the path written (dst), the number
                  \* of candidates tried and of files the folder held before
  _analyzer,      \* invoice_analyzer._analyzer: "None" or the api_key of the instance
  tmp_png,        \* /tmp/pdf_page_0.png: the task whose page image it holds, 0 if absent
  task_pc,        \* per task (a thread of web_app): "save", "ocr", "remove",
                  \* "analyze", "done"
  api_key,        \* per task: the api_key it passes to analyze_invoice
  ocr_text,       \* per task: the task whose page the OCR read for it, 0 for none
  used_key,       \* per task: the api_key of the analyzer that served it, "" before
  raw_text,       \* the ocr_text argument of LocalAnalyzer.analyze
  analyze_pc,     \* position in LocalAnalyzer.analyze: "idle", "start", "type",
                  \* "amount", "date", "invoice_number", "is_invoice", "merchant",
                  \* "return", "done", and "raised" when an exception has left it
  analyze_frame,  \* locals of LocalAnalyzer.analyze, and "info", the value returned
  summary,        \* local of main and of process_task: bucket name -> count and
                  \* amount, computed from the mapping organize returned
  total_amount,   \* local of main and of process_task
  tasks,          \* web_app.tasks: the task ids that are keys of the dictionary
  task,           \* the dictionary of each task ever registered: its status and
                  \* whether it has the key 'zip_path'
  disk,           \* the temporary directories and zip files that exist
  supported,      \* per task: temp_dir holds a file is_supported_file accepts
  proc_pc,        \* per task: position of its thread in process_task: "start",
                  \* "files", "organize", "report", "pack", "packed", "completed",
                  \* "ended"
  cleaners,       \* the threads do_cleanup ("delayed") and quick_cleanup ("quick"):
                  \* task and position "sleep", "locked", "del", "done"
  tasks_lock,     \* web_app.tasks_lock: 0, or the cleaner that holds it
  reqs,           \* the requests to /status and /download: task, position "check",
                  \* "lookup", "read", "done", and result
  deleted,        \* per task: how many times "del tasks[task_id]" ran for it
  exited          \* cleanup_all_tasks has run

organize_vars == <<infos, pc, paired_groups, scores, gi, idx, group_date, category_name,
                   folder_name, categorized, copy_mode, fs, io_log>>

analysis_vars == <<_analyzer, tmp_png, task_pc, api_key, ocr_text, used_key>>

local_vars == <<raw_text, analyze_pc, analyze_frame>>

run_vars == <<summary, total_amount>>

web_vars == <<tasks, task, disk, supported, proc_pc, cleaners, tasks_lock, reqs, deleted, exited>>

vars == <<organize_vars, analysis_vars, local_vars, run_vars, web_vars>>

\* what the actions of one component leave alone
outside_organize == <<analysis_vars, local_vars, run_vars, web_vars>>

outside_tasks == <<organize_vars, local_vars, run_vars, web_vars>>

outside_analyze == <<organize_vars, analysis_vars, run_vars, web_vars>>

outside_web == <<organize_vars, analysis_vars, local_vars, run_vars>>

----------------------------------------------------------------------------
(* Bounds of the model *)

MaxBatch == 3

MaxClassifyBatch == 2

MaxPlaceBatch == 3

MaxFailureBatch == 3

MaxTasks == 2

MaxFolderBatch == 2

MaxFragments == 2

MaxSummaryBatch == 2

MaxUploads == 1

MaxRequests == 1

----------------------------------------------------------------------------
(* config.py *)

\* INVOICE_CATEGORIES: dachepiao = taxi tickets, huochefeijipiao = train and
\* flight tickets, zhusufei = lodging, canfei = meals, qita = other
INVOICE_CATEGORIES ==
  [t \in {"taxi", "train", "flight", "hotel", "meal", "other"} |->
     CASE t = "taxi"   -> "dachepiao"
       [] t = "train"  -> "huochefeijipiao"
       [] t = "flight" -> "huochefeijipiao"
       [] t = "hotel"  -> "zhusufei"
       [] t = "meal"   -> "canfei"
       [] t = "other"  -> "qita"]

\* PENDING_CATEGORY: daiqueren = to be confirmed
PENDING_CATEGORY == "daiqueren"

\* CategoriesGet without the default: an unknown tag names its own bucket
CategoriesGetNoDefault(category) ==
  IF category \in DOMAIN INVOICE_CATEGORIES THEN INVOICE_CATEGORIES[category] ELSE category

\* INVOICE_CATEGORIES.get(category, "qita")
CategoriesGet(category) ==
  IF category \in DOMAIN INVOICE_CATEGORIES THEN INVOICE_CATEGORIES[category] ELSE "qita"

----------------------------------------------------------------------------
(* Strings *)

\* the character class of re.sub in _normalize_merchant: full-width and
\* ASCII parentheses, square and lenticular brackets, and the eight
\* characters of "youxian gongsi", "keji", "gufen"
NormalizeStripChars ==
  {"fw(", "fw)", "(", ")", "[[", "]]", "[", "]",
   "you", "xian", "gong", "si", "ke", "ji", "gu", "fen"}

\* characters str.strip() and \s treat as whitespace
Whitespace == {" ", "\t", "\n"}

\* str.lower() on one character
LowerChar(c) ==
  CASE c = "D" -> "d"
    [] c = "G" -> "g"
    [] c = "N" -> "n"
    [] OTHER   -> c

RECURSIVE LStrip(_)
LStrip(s) ==
  IF s # <<>> /\ Head(s) \in Whitespace THEN LStrip(Tail(s)) ELSE s

RECURSIVE RStrip(_)
RStrip(s) ==
  IF s # <<>> /\ s[Len(s)] \in Whitespace THEN RStrip(SubSeq(s, 1, Len(s) - 1)) ELSE s

\* str.strip()
Strip(s) == RStrip(LStrip(s))

\* str.lower()
Lower(s) == [k \in 1..Len(s) |-> LowerChar(s[k])]

\* s[:n]
Take(s, n) == SubSeq(s, 1, IF Len(s) < n THEN Len(s) ELSE n)

_normalize_merchant(name) ==
  IF name = <<>> THEN <<>>
  ELSE LET KeepChar(c) == c \notin NormalizeStripChars
       IN  Lower(Strip(SelectSeq(name, KeepChar)))

----------------------------------------------------------------------------
(* Dates *)

\* int() of the tokens a date string is made of
TokenNum ==
  ("2024" :> 2024) @@ ("01" :> 1) @@ ("02" :> 2) @@ ("03" :> 3) @@
  ("29" :> 29) @@ ("30" :> 30) @@ ("31" :> 31)

IsLeap(y) == (y % 4 = 0 /\ y % 100 # 0) \/ y % 400 = 0

DaysInMonth(y, m) ==
  CASE m = 2 -> IF IsLeap(y) THEN 29 ELSE 28
    [] m \in {4, 6, 9, 11} -> 30
    [] OTHER -> 31

RECURSIVE DaysBeforeMonth(_, _)
DaysBeforeMonth(y, m) ==
  IF m = 1 THEN 0 ELSE DaysBeforeMonth(y, m - 1) + DaysInMonth(y, m - 1)

DaysBeforeYear(y) ==
  (y - 1) * 365 + ((y - 1) \div 4) - ((y - 1) \div 100) + ((y - 1) \div 400)

\* datetime.strptime(s, "%Y-%m-%d") succeeds
StrptimeOk(s) ==
  /\ Len(s) = 3
  /\ \A k \in 1..3 : s[k] \in DOMAIN TokenNum
  /\ TokenNum[s[1]] >= 1
  /\ TokenNum[s[2]] \in 1..12
  /\ TokenNum[s[3]] \in 1..DaysInMonth(TokenNum[s[1]], TokenNum[s[2]])

\* the day number of datetime.strptime(s, "%Y-%m-%d")
Strptime(s) ==
  DaysBeforeYear(TokenNum[s[1]]) + DaysBeforeMonth(TokenNum[s[1]], TokenNum[s[2]])
    + TokenNum[s[3]]

Abs(n) == IF n < 0 THEN -n ELSE n

\* datetime.now().strftime("%Y-%m-%d")
Today == <<"2024", "03", "01">>

----------------------------------------------------------------------------
(* InvoiceInfo *)

\* InvoiceInfo.get_actual_date
get_actual_date(info) ==
  IF info.service_date # <<>> THEN info.service_date
  ELSE IF info.date # <<>> THEN info.date
  ELSE <<>>

----------------------------------------------------------------------------
(* FileOrganizer._calculate_match_score *)

\* ScoreMerchant with "if" for "elif": the merchant counts on top of the subtype
ScoreMerchantBoth(voucher, invoice) ==
  (IF _normalize_merchant(voucher.subtype) = _normalize_merchant(invoice.subtype)
   THEN 3 ELSE 0)
  + (IF _normalize_merchant(voucher.merchant) = _normalize_merchant(invoice.merchant)
     THEN 2 ELSE 0)

\* ScoreMerchant with a subtype worth less than a merchant
ScoreMerchantSubtypeLess(voucher, invoice) ==
  IF _normalize_merchant(voucher.subtype) = _normalize_merchant(invoice.subtype) THEN 1
  ELSE IF _normalize_merchant(voucher.merchant) = _normalize_merchant(invoice.merchant) THEN 2
  ELSE 0

\* step 1: subtype, else merchant
ScoreMerchant(voucher, invoice) ==
  IF _normalize_merchant(voucher.subtype) = _normalize_merchant(invoice.subtype) THEN 3
  ELSE IF _normalize_merchant(voucher.merchant) = _normalize_merchant(invoice.merchant) THEN 2
  ELSE 0

\* ScoreDate with a parser that takes every YYYY-MM-DD shape for a day
ScoreDateLenient(voucher, invoice) ==
  LET voucher_date == get_actual_date(voucher)
      invoice_service_date ==
        IF invoice.service_date # <<>> THEN invoice.service_date ELSE invoice.date
  IN  IF voucher_date # <<>> /\ invoice_service_date # <<>>
      THEN LET days_diff == Abs(Strptime(voucher_date) - Strptime(invoice_service_date))
           IN  IF days_diff = 0 THEN 2
               ELSE IF days_diff <= 1 THEN 1
               ELSE 0
      ELSE 0

\* step 2: date; a ValueError of strptime is caught and adds nothing
ScoreDate(voucher, invoice) ==
  LET voucher_date == get_actual_date(voucher)
      invoice_service_date ==
        IF invoice.service_date # <<>> THEN invoice.service_date ELSE invoice.date
  IN  IF voucher_date # <<>> /\ invoice_service_date # <<>>
      THEN IF StrptimeOk(voucher_date) /\ StrptimeOk(invoice_service_date)
           THEN LET days_diff == Abs(Strptime(voucher_date) - Strptime(invoice_service_date))
                IN  IF days_diff = 0 THEN 2
                    ELSE IF days_diff <= 1 THEN 1
                    ELSE 0
           ELSE 0
      ELSE 0

\* step 3: amount; diff <= max_amount * 0.01 is diff * 100 <= max_amount
ScoreAmount(voucher, invoice) ==
  IF voucher.amount > 0 /\ invoice.amount > 0
  THEN LET diff == Abs(voucher.amount - invoice.amount)
           max_amount == IF voucher.amount >= invoice.amount
                         THEN voucher.amount ELSE invoice.amount
       IN  IF diff * 100 <= max_amount THEN 3
           ELSE IF diff * 100 <= max_amount * 5 THEN 1
           ELSE 0
  ELSE 0

\* step 4: type
ScoreType(voucher, invoice) ==
  IF voucher.type = invoice.type THEN 1 ELSE 0

_calculate_match_score(voucher, invoice) ==
  ScoreMerchant(voucher, invoice) + ScoreDate(voucher, invoice)
    + ScoreAmount(voucher, invoice) + ScoreType(voucher, invoice)

----------------------------------------------------------------------------
(* FileOrganizer._pair_vouchers_and_invoices *)

Indices(batch) == [k \in 1..Len(batch) |-> k]

\* InvoicesOf without its filter
InvoicesOfAll(batch) == Indices(batch)

\* invoices = [i for i in invoice_infos if i.is_invoice]
InvoicesOf(batch) ==
  LET IsInv(k) == batch[k].is_invoice IN SelectSeq(Indices(batch), IsInv)

\* vouchers = [i for i in invoice_infos if not i.is_invoice]
VouchersOf(batch) ==
  LET IsVou(k) == ~batch[k].is_invoice IN SelectSeq(Indices(batch), IsVou)

\* BestMatch with "score >= best_score": the last of the equal best wins
RECURSIVE BestMatchLastTie(_, _, _, _, _, _, _)
BestMatchLastTie(batch, voucher, invoices, k, used_invoices, best_match, best_score) ==
  IF k > Len(invoices) THEN best_match
  ELSE LET invoice == invoices[k] IN
       IF invoice \in used_invoices
       THEN BestMatchLastTie(batch, voucher, invoices, k + 1, used_invoices,
                             best_match, best_score)
       ELSE LET score == _calculate_match_score(batch[voucher], batch[invoice]) IN
            IF score >= best_score /\ score >= 2
            THEN BestMatchLastTie(batch, voucher, invoices, k + 1, used_invoices,
                                  invoice, score)
            ELSE BestMatchLastTie(batch, voucher, invoices, k + 1, used_invoices,
                                  best_match, best_score)

\* the inner loop "for invoice in invoices" from position k on, with the
\* current best_match (0 is None) and best_score; yields the final best_match
RECURSIVE BestMatch(_, _, _, _, _, _, _)
BestMatch(batch, voucher, invoices, k, used_invoices, best_match, best_score) ==
  IF k > Len(invoices) THEN best_match
  ELSE LET invoice == invoices[k] IN
       IF invoice \in used_invoices
       THEN BestMatch(batch, voucher, invoices, k + 1, used_invoices, best_match, best_score)
       ELSE LET score == _calculate_match_score(batch[voucher], batch[invoice]) IN
            IF score > best_score /\ score >= 2
            THEN BestMatch(batch, voucher, invoices, k + 1, used_invoices, invoice, score)
            ELSE BestMatch(batch, voucher, invoices, k + 1, used_invoices,
                           best_match, best_score)

\* the outer loop "for voucher in vouchers" from position k on; yields
\* [groups, used_invoices, scored] where scored holds the pairs it scored
RECURSIVE PairLoop(_, _, _, _, _, _, _)
PairLoop(batch, vouchers, invoices, k, groups, used_invoices, scored) ==
  IF k > Len(vouchers)
  THEN [groups |-> groups, used_invoices |-> used_invoices, scored |-> scored]
  ELSE LET voucher == vouchers[k]
           best_match == BestMatch(batch, voucher, invoices, 1, used_invoices, 0, 0)
           now_scored == {<<voucher, invoices[j]>> : j \in
                            {j \in 1..Len(invoices) : invoices[j] \notin used_invoices}}
       IN  IF best_match # 0
           THEN PairLoop(batch, vouchers, invoices, k + 1,
                         Append(groups, <<voucher, best_match>>),
                         used_invoices \cup {best_match}, scored \cup now_scored)
           ELSE PairLoop(batch, vouchers, invoices, k + 1,
                         Append(groups, <<voucher>>), used_invoices, scored \cup now_scored)

\* LeftoverInvoices without the used_invoices test
LeftoverInvoicesAll(invoices, k, used_invoices) ==
  [j \in 1..(Len(invoices) - k + 1) |-> <<invoices[j + k - 1]>>]

\* "for invoice in invoices: if id(invoice) not in used_invoices"
RECURSIVE LeftoverInvoices(_, _, _)
LeftoverInvoices(invoices, k, used_invoices) ==
  IF k > Len(invoices) THEN <<>>
  ELSE IF invoices[k] \notin used_invoices
       THEN <<(<<invoices[k]>>)>> \o LeftoverInvoices(invoices, k + 1, used_invoices)
       ELSE LeftoverInvoices(invoices, k + 1, used_invoices)

Pairing(batch) ==
  PairLoop(batch, VouchersOf(batch), InvoicesOf(batch), 1, <<>>, {}, {})

\* _pair_vouchers_and_invoices with the leftover invoices emitted first
PairLeftoverFirst(batch) ==
  LET r == Pairing(batch)
  IN  LeftoverInvoices(InvoicesOf(batch), 1, r.used_invoices) \o r.groups

_pair_vouchers_and_invoices(batch) ==
  LET r == Pairing(batch)
  IN  r.groups \o LeftoverInvoices(InvoicesOf(batch), 1, r.used_invoices)

----------------------------------------------------------------------------
(* FileOrganizer._get_category *)

\* first "for info in group" loop: the first formal invoice whose type is not "other"
RECURSIVE FirstInvoiceType(_, _, _)
FirstInvoiceType(batch, group, k) ==
  IF k > Len(group) THEN ""
  ELSE IF batch[group[k]].is_invoice /\ batch[group[k]].type # "other"
       THEN batch[group[k]].type
       ELSE FirstInvoiceType(batch, group, k + 1)

\* second loop: the first member whose type is not "other"
RECURSIVE FirstAnyType(_, _, _)
FirstAnyType(batch, group, k) ==
  IF k > Len(group) THEN "other"
  ELSE IF batch[group[k]].type # "other"
       THEN batch[group[k]].type
       ELSE FirstAnyType(batch, group, k + 1)

\* the first loop returns only when it finds an invoice with a type other than "other"
HasInvoiceType(batch, group) ==
  \E k \in 1..Len(group) : batch[group[k]].is_invoice /\ batch[group[k]].type # "other"

\* _get_category without its first loop: the first member decides
GetCategoryFirstMember(batch, group) == FirstAnyType(batch, group, 1)

_get_category(batch, group) ==
  IF HasInvoiceType(batch, group) THEN FirstInvoiceType(batch, group, 1)
  ELSE FirstAnyType(batch, group, 1)

----------------------------------------------------------------------------
(* FileOrganizer._sanitize_filename, _extract_trip_info *)

\* the character class of the first re.sub of _sanitize_filename
IllegalChars == {"<", ">", ":", "\"", "/", "\\", "|", "?", "*"}

\* re.sub(r'\s+', ' ', name): every run of whitespace becomes one space
RECURSIVE CollapseSpaces(_)
CollapseSpaces(s) ==
  IF s = <<>> THEN <<>>
  ELSE IF Head(s) \in Whitespace
       THEN <<" ">> \o CollapseSpaces(LStrip(s))
       ELSE <<Head(s)>> \o CollapseSpaces(Tail(s))

_sanitize_filename(name) ==
  LET Legal(c) == c \notin IllegalChars
  IN  Strip(CollapseSpaces(SelectSeq(name, Legal)))

\* the least position q in from..to with Ok(q), or 0
FirstPos(s, from, to, chars) ==
  LET hits == {q \in from..to : s[q] \in chars}
  IN  IF hits = {} THEN 0 ELSE CHOOSE q \in hits : \A r \in hits : q <= r

\* group 2 of the first two patterns: (.+?)(?:de|$) starting at position a
TripTail(s, a) ==
  LET e == FirstPos(s, a + 1, Len(s), {"de"})
  IN  SubSeq(s, a, IF e = 0 THEN Len(s) ELSE e - 1)

\* re.search(r'cong(.+?)dao(.+?)(?:de|$)'): the leftmost "cong" that has a
\* "dao" at least two places later which is not the last character
TripFromTo(s) ==
  LET starts == {p \in 1..Len(s) : s[p] = "cong"
                                   /\ FirstPos(s, p + 2, Len(s) - 1, {"dao"}) # 0}
  IN  IF starts = {} THEN <<>>
      ELSE LET p == CHOOSE p \in starts : \A r \in starts : p <= r
               q == FirstPos(s, p + 2, Len(s) - 1, {"dao"})
           IN  Strip(SubSeq(s, p + 1, q - 1)) \o <<"-">> \o Strip(TripTail(s, q + 1))

\* re.search(r'(.+?)[zhi dao - ->](.+?)(?:de|$)'): matches from position 1
TripSeparators == {"zhi", "dao", "-", "->"}

TripAToB(s) ==
  LET q == FirstPos(s, 2, Len(s) - 1, TripSeparators)
  IN  IF q = 0 THEN <<>>
      ELSE Strip(SubSeq(s, 1, q - 1)) \o <<"-">> \o Strip(TripTail(s, q + 1))

\* re.search(r'(.+?)chufa'): matches from position 1
TripDeparts(s) ==
  LET hits == {q \in 2..(Len(s) - 1) : s[q] = "chu" /\ s[q + 1] = "fa"}
  IN  IF hits = {} THEN <<>>
      ELSE Strip(SubSeq(s, 1, (CHOOSE q \in hits : \A r \in hits : q <= r) - 1))

TripFromToMatches(s) ==
  \E p \in 1..Len(s) : s[p] = "cong" /\ FirstPos(s, p + 2, Len(s) - 1, {"dao"}) # 0

TripDepartsMatches(s) ==
  \E q \in 2..(Len(s) - 1) : s[q] = "chu" /\ s[q + 1] = "fa"

_extract_trip_info(description) ==
  IF description = <<>> THEN <<>>
  ELSE IF TripFromToMatches(description) THEN TripFromTo(description)
  ELSE IF FirstPos(description, 2, Len(description) - 1, TripSeparators) # 0
       THEN TripAToB(description)
  ELSE IF TripDepartsMatches(description) THEN TripDeparts(description)
  ELSE Take(description, 20)

----------------------------------------------------------------------------
(* FileOrganizer._generate_folder_name, _generate_filename *)

\* f"{amount:.2f}yuan": the amounts of the model are whole yuan
FormatAmount(amount) == <<ToString(amount), ".", "00", "yuan">>

\* f"{index:02d}"
FormatIndex(index) ==
  IF index < 10 THEN <<"0", ToString(index)>> ELSE <<ToString(index)>>

\* "for info in group": the last voucher of the group, 0 for None
LastVoucher(batch, group) ==
  LET ks == {k \in 1..Len(group) : ~batch[group[k]].is_invoice}
  IN  IF ks = {} THEN 0 ELSE group[CHOOSE k \in ks : \A j \in ks : j <= k]

\* "for info in group": the last formal invoice of the group, 0 for None
LastInvoice(batch, group) ==
  LET ks == {k \in 1..Len(group) : batch[group[k]].is_invoice}
  IN  IF ks = {} THEN 0 ELSE group[CHOOSE k \in ks : \A j \in ks : j <= k]

\* FolderDate with the invoice asked before the voucher
FolderDateInvoiceFirst(batch, group) ==
  LET voucher_info == LastVoucher(batch, group)
      invoice_info == LastInvoice(batch, group)
      d1 == IF invoice_info # 0 THEN get_actual_date(batch[invoice_info]) ELSE <<>>
      d2 == IF d1 = <<>> /\ voucher_info # 0
            THEN get_actual_date(batch[voucher_info]) ELSE d1
  IN  IF d2 = <<>> THEN Today ELSE d2

\* actual_date of _generate_folder_name
FolderDate(batch, group) ==
  LET voucher_info == LastVoucher(batch, group)
      invoice_info == LastInvoice(batch, group)
      d1 == IF voucher_info # 0 THEN get_actual_date(batch[voucher_info]) ELSE <<>>
      d2 == IF d1 = <<>> /\ invoice_info # 0
            THEN get_actual_date(batch[invoice_info]) ELSE d1
  IN  IF d2 = <<>> THEN Today ELSE d2

\* main_info = invoice_info or voucher_info or group[0]
MainInfo(batch, group) ==
  LET voucher_info == LastVoucher(batch, group)
      invoice_info == LastInvoice(batch, group)
  IN  IF invoice_info # 0 THEN invoice_info
      ELSE IF voucher_info # 0 THEN voucher_info
      ELSE group[1]

\* weizhi = unknown
_generate_folder_name(batch, group) ==
  LET main_info == batch[MainInfo(batch, group)]
      merchant == IF main_info.subtype # <<>> THEN main_info.subtype
                  ELSE IF main_info.merchant # <<>> THEN main_info.merchant
                  ELSE <<"weizhi">>
  IN  <<FolderDate(batch, group), Take(_sanitize_filename(merchant), 20)>>
        \o (IF main_info.amount > 0 THEN <<FormatAmount(main_info.amount)>> ELSE <<>>)

\* _generate_filename with "if index > 1" for "if total > 1"
GenerateFilenameIndexAfterFirst(info, index, total, gdate) ==
  LET actual_date == IF gdate # <<>> THEN gdate ELSE get_actual_date(info)
      merchant == IF info.subtype # <<>> THEN info.subtype ELSE info.merchant
      desc == _extract_trip_info(info.description)
  IN  [stem |->
         (IF index > 1 THEN <<FormatIndex(index)>> ELSE <<>>)
           \o (IF actual_date # <<>> THEN <<actual_date>> ELSE <<>>)
           \o <<(IF info.is_invoice THEN <<"fapiao">> ELSE <<"pingzheng">>)>>
           \o (IF merchant # <<>> THEN <<Take(_sanitize_filename(merchant), 12)>> ELSE <<>>)
           \o (IF info.amount > 0 THEN <<FormatAmount(info.amount)>> ELSE <<>>)
           \o (IF info.description # <<>> /\ desc # <<>>
               THEN <<Take(_sanitize_filename(desc), 15)>> ELSE <<>>),
       suffix |-> info.file_path.suffix]

\* the parts of the file name; fapiao = invoice, pingzheng = voucher
_generate_filename(info, index, total, gdate) ==
  LET actual_date == IF gdate # <<>> THEN gdate ELSE get_actual_date(info)
      merchant == IF info.subtype # <<>> THEN info.subtype ELSE info.merchant
      desc == _extract_trip_info(info.description)
  IN  [stem |->
         (IF total > 1 THEN <<FormatIndex(index)>> ELSE <<>>)
           \o (IF actual_date # <<>> THEN <<actual_date>> ELSE <<>>)
           \o <<(IF info.is_invoice THEN <<"fapiao">> ELSE <<"pingzheng">>)>>
           \o (IF merchant # <<>> THEN <<Take(_sanitize_filename(merchant), 12)>> ELSE <<>>)
           \o (IF info.amount > 0 THEN <<FormatAmount(info.amount)>> ELSE <<>>)
           \o (IF info.description # <<>> /\ desc # <<>>
               THEN <<Take(_sanitize_filename(desc), 15)>> ELSE <<>>),
       suffix |-> info.file_path.suffix]

----------------------------------------------------------------------------
(* FileOrganizer._move_file *)

\* NumberedPath on the stem of the last candidate instead of the original stem
NumberedPathChained(dst, stem, counter) ==
  [dst EXCEPT !.stem = Append(dst.stem, <<ToString(counter)>>)]

\* dst.parent / f"{stem}_{counter}{suffix}"
NumberedPath(dst, stem, counter) ==
  [dst EXCEPT !.stem = Append(stem, <<ToString(counter)>>)]

\* "while dst.exists()": the free path and the number of dst.exists() calls
\* of the loop, counter being the next number to try
RECURSIVE FreePath(_, _, _, _, _)
FreePath(files, dst, stem, counter, calls) ==
  IF dst \in files
  THEN FreePath(files, NumberedPath(dst, stem, counter), stem, counter + 1, calls + 1)
  ELSE [dst |-> dst, calls |-> calls + 1]

\* the destination _move_file writes to, and how many candidates it tried
ResolveDst(files, dst) ==
  IF dst \in files
  THEN LET r == FreePath(files, dst, dst.stem, 1, 0)
       IN  [dst |-> r.dst, attempts |-> r.calls]
  ELSE [dst |-> dst, attempts |-> 1]

\* shutil.copy2 / shutil.move
FilesAfter(files, src, dst, copy) ==
  IF copy THEN files \cup {dst} ELSE (files \ {src}) \cup {dst}

----------------------------------------------------------------------------
(* FileOrganizer.organize *)

\* lines 46-59: the date of the first voucher, else of the first member that has one
RECURSIVE FirstDate(_, _, _)
FirstDate(batch, group, k) ==
  IF k > Len(group) THEN <<>>
  ELSE IF get_actual_date(batch[group[k]]) # <<>>
       THEN get_actual_date(batch[group[k]])
       ELSE FirstDate(batch, group, k + 1)

GroupDate(batch, group) ==
  LET ks == {k \in 1..Len(group) : ~batch[group[k]].is_invoice}
      first == IF ks = {} THEN <<>>
               ELSE get_actual_date(batch[group[CHOOSE k \in ks : \A j \in ks : k <= j]])
  IN  IF first # <<>> THEN first ELSE FirstDate(batch, group, 1)

\* NeedsConfirmation without the test for a group of one
NeedsConfirmationAnySize(batch, group) ==
  \E k \in 1..Len(group) :
    batch[group[k]].is_invoice /\ batch[group[k]].service_date = <<>>

\* lines 63-67
NeedsConfirmation(batch, group) ==
  /\ Len(group) = 1
  /\ batch[group[1]].is_invoice
  /\ batch[group[1]].service_date = <<>>

\* lines 70-74
CategoryName(batch, group) ==
  IF NeedsConfirmation(batch, group) THEN PENDING_CATEGORY
  ELSE CategoriesGet(_get_category(batch, group))

\* a target path whose subfolder is computed for the record, from the first
\* part of its file name
TargetPathOwnFolder(bucket, folder, filename) ==
  [parent |-> << <<(<<bucket>>)>>, folder \o <<filename.stem[1]>> >>, stem |-> filename.stem,
   suffix |-> filename.suffix]

\* self.output_dir / category_name / folder_name / new_filename
TargetPath(bucket, folder, filename) ==
  [parent |-> << <<(<<bucket>>)>>, folder >>, stem |-> filename.stem,
   suffix |-> filename.suffix]

\* categorized[category_name].append(info)
DictAppend(d, key, value) ==
  [k \in DOMAIN d \cup {key} |->
     IF k = key THEN (IF k \in DOMAIN d THEN Append(d[k], value) ELSE <<value>>)
     ELSE d[k]]

\* SetFilePath that writes the path to every record of the batch
SetFilePathOfAll(batch, info, path) ==
  [k \in DOMAIN batch |-> [batch[k] EXCEPT !.file_path = path]]

\* line 92: info.file_path = str(target_path)
SetFilePath(batch, info, path) ==
  [batch EXCEPT ![info].file_path = path]

\* line 40
Pair ==
  /\ UNCHANGED outside_organize
  /\ pc = "start"
  /\ paired_groups' = _pair_vouchers_and_invoices(infos)
  /\ scores' = [p \in Pairing(infos).scored |->
                  _calculate_match_score(infos[p[1]], infos[p[2]])]
  /\ gi' = 1
  /\ pc' = "group"
  /\ UNCHANGED <<infos, idx, group_date, category_name, folder_name, categorized,
                 copy_mode, fs, io_log>>

\* lines 45-81: one iteration of "for group in paired_groups" up to the inner loop
BeginGroup ==
  /\ UNCHANGED outside_organize
  /\ pc = "group"
  /\ gi <= Len(paired_groups)
  /\ LET group == paired_groups[gi] IN
       /\ group_date' = GroupDate(infos, group)
       /\ category_name' = CategoryName(infos, group)
       /\ folder_name' = _generate_folder_name(infos, group)
  /\ idx' = 1
  /\ pc' = "move"
  /\ UNCHANGED <<infos, paired_groups, scores, gi, categorized, copy_mode, fs, io_log>>

\* lines 84-93: one iteration of "for idx, info in enumerate(group, 1)"
PlaceFile ==
  /\ UNCHANGED outside_organize
  /\ pc = "move"
  /\ LET group == paired_groups[gi]
         info == group[idx]
         new_filename == _generate_filename(infos[info], idx, Len(group), group_date)
         target_path == TargetPath(category_name, folder_name, new_filename)
         src == infos[info].file_path
         r == ResolveDst(fs, target_path)
     IN  /\ IF src \in fs
            THEN /\ fs' = FilesAfter(fs, src, r.dst, copy_mode)
                 /\ io_log' = Append(io_log, [info |-> info, src |-> src, dst |-> r.dst,
                                              target |-> target_path,
                                              attempts |-> r.attempts,
                                              in_folder |-> Cardinality(
                                                {f \in fs : f.parent = target_path.parent})])
            ELSE UNCHANGED <<fs, io_log>>
         /\ infos' = SetFilePath(infos, info, target_path)
         /\ categorized' = DictAppend(categorized, category_name, info)
         /\ IF idx < Len(group)
            THEN /\ idx' = idx + 1
                 /\ UNCHANGED <<gi, pc>>
            ELSE /\ gi' = gi + 1
                 /\ pc' = "group"
                 /\ UNCHANGED idx
  /\ UNCHANGED <<paired_groups, scores, group_date, category_name, folder_name, copy_mode>>

\* line 81: target_folder.mkdir raises OSError, which organize does not catch
MkdirFails ==
  /\ UNCHANGED outside_organize
  /\ pc = "group"
  /\ gi <= Len(paired_groups)
  /\ LET group == paired_groups[gi] IN
       /\ group_date' = GroupDate(infos, group)
       /\ category_name' = CategoryName(infos, group)
       /\ folder_name' = _generate_folder_name(infos, group)
  /\ pc' = "raised"
  /\ UNCHANGED <<infos, paired_groups, scores, gi, idx, categorized, copy_mode, fs, io_log>>

\* lines 354-358: shutil.copy2 or shutil.move raises OSError, which neither
\* _move_file nor organize catches; the source is still there and the
\* destination may have been created
MoveFails ==
  /\ UNCHANGED outside_organize
  /\ pc = "move"
  /\ LET group == paired_groups[gi]
         info == group[idx]
         new_filename == _generate_filename(infos[info], idx, Len(group), group_date)
         target_path == TargetPath(category_name, folder_name, new_filename)
         r == ResolveDst(fs, target_path)
     IN  /\ infos[info].file_path \in fs
         /\ fs' \in {fs, fs \cup {r.dst}}
  /\ pc' = "raised"
  /\ UNCHANGED <<infos, paired_groups, scores, gi, idx, group_date, category_name,
                 folder_name, categorized, copy_mode, io_log>>

\* line 95
Return ==
  /\ UNCHANGED outside_organize
  /\ pc = "group"
  /\ gi > Len(paired_groups)
  /\ pc' = "done"
  /\ UNCHANGED <<infos, paired_groups, scores, gi, idx, group_date, category_name,
                 folder_name, categorized, copy_mode, fs, io_log>>

Next == Pair \/ BeginGroup \/ MkdirFails \/ PlaceFile \/ MoveFails \/ Return

----------------------------------------------------------------------------
(* reimbursement.py main and web_app.py process_task: the summary of a run *)

\* the bucket names the summary loop goes through
SummaryCategories == <<"dachepiao", "huochefeijipiao", "zhusufei", "canfei", "qita">>

\* sum(i.amount for i in infos if i.is_invoice)
RECURSIVE InvoiceAmount(_, _)
InvoiceAmount(batch, members) ==
  IF members = <<>> THEN 0
  ELSE (IF batch[Head(members)].is_invoice THEN batch[Head(members)].amount ELSE 0)
         + InvoiceAmount(batch, Tail(members))

\* len([i for i in infos if i.is_invoice])
InvoiceCount(batch, members) ==
  Cardinality({k \in DOMAIN members : batch[members[k]].is_invoice})

\* the loop over the category names, from the k-th on: the total
RECURSIVE TotalFrom(_, _, _)
TotalFrom(names, batch, k) ==
  IF k > Len(names) THEN 0
  ELSE (IF names[k] \in DOMAIN categorized
        THEN InvoiceAmount(batch, categorized[names[k]]) ELSE 0)
         + TotalFrom(names, batch, k + 1)

\* main, step 5, and process_task, after generate_report
Summarize ==
  /\ pc = "done"
  /\ summary' = [b \in {SummaryCategories[k] : k \in DOMAIN SummaryCategories}
                         \cap DOMAIN categorized |->
                   [count  |-> InvoiceCount(infos, categorized[b]),
                    amount |-> InvoiceAmount(infos, categorized[b])]]
  /\ total_amount' = TotalFrom(SummaryCategories, infos, 1)
  /\ pc' = "summarized"
  /\ UNCHANGED <<infos, paired_groups, scores, gi, idx, group_date, category_name,
                 folder_name, categorized, copy_mode, fs, io_log>>
  /\ UNCHANGED <<analysis_vars, local_vars, web_vars>>

NextRun == Pair \/ BeginGroup \/ MkdirFails \/ PlaceFile \/ MoveFails \/ Return \/ Summarize

\* no summary has been computed
InitRun ==
  /\ summary = <<>>
  /\ total_amount = 0

----------------------------------------------------------------------------
(* ocr_handler.py and invoice_analyzer.py: a task extracts and analyses a file *)

\* web_app.upload starts a thread per upload; each runs process_task, which
\* calls extract_text_from_file and analyze_invoice for its files.  A task
\* of the model has one file, a scanned PDF of one page (page_num = 0).

\* OCRHandler._extract_from_pdf, img.save(temp_path)
OcrSave(t) ==
  /\ task_pc[t] = "save"
  /\ tmp_png' = t
  /\ task_pc' = [task_pc EXCEPT ![t] = "ocr"]
  /\ UNCHANGED <<_analyzer, api_key, ocr_text, used_key>>
  /\ UNCHANGED outside_tasks

\* OCRHandler._extract_from_pdf, self._extract_from_image(temp_path): the
\* text is that of the image the file holds now, none if the file is gone
OcrRecognize(t) ==
  /\ task_pc[t] = "ocr"
  /\ ocr_text' = [ocr_text EXCEPT ![t] = tmp_png]
  /\ task_pc' = [task_pc EXCEPT ![t] = "remove"]
  /\ UNCHANGED <<_analyzer, tmp_png, api_key, used_key>>
  /\ UNCHANGED outside_tasks

\* OCRHandler._extract_from_pdf, "if os.path.exists(temp_path): os.remove(temp_path)"
OcrRemove(t) ==
  /\ task_pc[t] = "remove"
  /\ tmp_png' = 0
  /\ task_pc' = [task_pc EXCEPT ![t] = "analyze"]
  /\ UNCHANGED <<_analyzer, api_key, ocr_text, used_key>>
  /\ UNCHANGED outside_tasks

\* get_analyzer: the instance is built with the key of the first call only
get_analyzer(key) == IF _analyzer = "None" THEN key ELSE _analyzer

\* analyze_invoice(ocr_text, file_path, api_key)
AnalyzeInvoice(t) ==
  /\ task_pc[t] = "analyze"
  /\ _analyzer' = get_analyzer(api_key[t])
  /\ used_key' = [used_key EXCEPT ![t] = _analyzer']
  /\ task_pc' = [task_pc EXCEPT ![t] = "done"]
  /\ UNCHANGED <<tmp_png, api_key, ocr_text>>
  /\ UNCHANGED outside_tasks

NextTask ==
  \/ \E t \in DOMAIN task_pc : OcrSave(t)
  \/ \E t \in DOMAIN task_pc : OcrRecognize(t)
  \/ \E t \in DOMAIN task_pc : OcrRemove(t)
  \/ \E t \in DOMAIN task_pc : AnalyzeInvoice(t)

\* the module globals after import, and the tasks that have been started
InitTasks(keys) ==
  /\ _analyzer = "None"
  /\ tmp_png = 0
  /\ task_pc = [t \in DOMAIN keys |-> "save"]
  /\ api_key = keys
  /\ ocr_text = [t \in DOMAIN keys |-> 0]
  /\ used_key = [t \in DOMAIN keys |-> ""]

----------------------------------------------------------------------------
(* app/analyzer.py: LocalAnalyzer, the rule-based analysis of one OCR text *)

\* The OCR text is a sequence of one-character tokens.  Further characters
\* in pinyin: "che" U+8F66, "piao" U+7968, "ji1" U+673A, "ji3" U+8BA1,
\* "ji4" U+5B63, "dian" U+5E97, "dian4" U+7535, "ting" U+5EAD, "ting1"
\* U+5385, "wan" U+4E07, "wan3" U+665A, "er" U+513F, "er3" U+5C14, "zhu1"
\* U+732A, "zhu4" U+4F4F, "e" U+997F, "e2" U+989D, "shou" U+6536, "shou3"
\* U+9996, "shou4" U+552E, "xiao" U+5C0F, "xiao1" U+9500, "zhi1" U+652F,
\* "zhi2" U+503C, "yue" U+6708, "yue1" U+7EA6, "hao" U+8C6A, "hao4"
\* U+53F7, "fang" U+623F, "fang1" U+65B9, "jia" U+4EF7, "jia1" U+5BB6,
\* "cheng" U+7A0B, "cheng1" U+79F0, "yuan" U+5143, "nian" U+5E74, "ri"
\* U+65E5; "Y" is U+00A5, "fwY" U+FFE5 and "fw:" U+FF1A.

Digits == {"0", "1", "2", "3", "4", "5", "6", "7", "8", "9"}

DigitChars == <<"0", "1", "2", "3", "4", "5", "6", "7", "8", "9">>

\* the value of a decimal digit
DigitVal(c) == (CHOOSE k \in DOMAIN DigitChars : DigitChars[k] = c) - 1

\* [：:]
Colons == {"fw:", ":"}

\* [¥￥]
YenSigns == {"Y", "fwY"}

\* s[i:].startswith(w)
StartsWith(s, i, w) ==
  i + Len(w) - 1 <= Len(s) /\ SubSeq(s, i, i + Len(w) - 1) = w

\* w in s
Contains(s, w) == \E i \in 1..(Len(s) + 1) : StartsWith(s, i, w)

\* s[i] exists and is in the class C
CharIn(s, i, C) == i >= 1 /\ i <= Len(s) /\ s[i] \in C

\* a greedy C* from position i: the position after it
RECURSIVE SkipClass(_, _, _)
SkipClass(s, i, C) == IF CharIn(s, i, C) THEN SkipClass(s, i + 1, C) ELSE i

\* a keyword table that lists the meal keywords first
CategoryKeywordsMealFirst ==
  << [type_key |-> "meal",
      keywords |-> << <<"can", "yin">>, <<"can", "ting1">>, <<"fan", "dian">>,
                      <<"mei", "tuan">>, <<"e", "le", "me">>, <<"wai", "mai">>,
                      <<"wu", "can">>, <<"wan3", "can">>, <<"zao", "can">> >>],
     [type_key |-> "taxi",
      keywords |-> << <<"di", "di">>, <<"gao", "de2">>, <<"mei", "tuan", "da", "che">>,
                      <<"cao", "cao1">>, <<"shou3", "qi">>, <<"chu", "zu", "che">>,
                      <<"wang", "yue1", "che">>, <<"kuai", "che">>, <<"zhuan", "che">>,
                      <<"da", "che">> >>],
     [type_key |-> "train",
      keywords |-> << <<"1", "2", "3", "0", "6">>, <<"huo", "che", "piao">>,
                      <<"gao", "tie">>, <<"dong", "che">>, <<"tie", "lu">>,
                      <<"che", "piao">> >>],
     [type_key |-> "flight",
      keywords |-> << <<"hang", "kong">>, <<"ji1", "piao">>, <<"deng", "ji1", "pai">>,
                      <<"hang", "ban">>, <<"xie", "cheng">>, <<"fei", "zhu1">>,
                      <<"qu", "na", "er">> >>],
     [type_key |-> "hotel",
      keywords |-> << <<"jiu", "dian">>, <<"bin", "guan">>, <<"zhu4", "su">>,
                      <<"ke4", "fang">>, <<"min", "su">>, <<"ru", "jia1">>,
                      <<"han", "ting">>, <<"quan", "ji4">>, <<"ya", "duo">>,
                      <<"xi", "er3", "dun">>, <<"wan", "hao">> >>] >>

\* CATEGORY_KEYWORDS (config.py), in the order of the dict
CATEGORY_KEYWORDS ==
  << [type_key |-> "taxi",
      keywords |-> << <<"di", "di">>, <<"gao", "de2">>, <<"mei", "tuan", "da", "che">>,
                      <<"cao", "cao1">>, <<"shou3", "qi">>, <<"chu", "zu", "che">>,
                      <<"wang", "yue1", "che">>, <<"kuai", "che">>, <<"zhuan", "che">>,
                      <<"da", "che">> >>],
     [type_key |-> "train",
      keywords |-> << <<"1", "2", "3", "0", "6">>, <<"huo", "che", "piao">>,
                      <<"gao", "tie">>, <<"dong", "che">>, <<"tie", "lu">>,
                      <<"che", "piao">> >>],
     [type_key |-> "flight",
      keywords |-> << <<"hang", "kong">>, <<"ji1", "piao">>, <<"deng", "ji1", "pai">>,
                      <<"hang", "ban">>, <<"xie", "cheng">>, <<"fei", "zhu1">>,
                      <<"qu", "na", "er">> >>],
     [type_key |-> "hotel",
      keywords |-> << <<"jiu", "dian">>, <<"bin", "guan">>, <<"zhu4", "su">>,
                      <<"ke4", "fang">>, <<"min", "su">>, <<"ru", "jia1">>,
                      <<"han", "ting">>, <<"quan", "ji4">>, <<"ya", "duo">>,
                      <<"xi", "er3", "dun">>, <<"wan", "hao">> >>],
     [type_key |-> "meal",
      keywords |-> << <<"can", "yin">>, <<"can", "ting1">>, <<"fan", "dian">>,
                      <<"mei", "tuan">>, <<"e", "le", "me">>, <<"wai", "mai">>,
                      <<"wu", "can">>, <<"wan3", "can">>, <<"zao", "can">> >>] >>

\* type_map of _detect_type: the (type, subtype) returned for a type_key
type_map ==
  [taxi   |-> <<"taxi", <<"da", "che", "chu", "xing">> >>,
   train  |-> <<"train", <<"huo", "che", "piao">> >>,
   flight |-> <<"flight", <<"ji1", "piao">> >>,
   hotel  |-> <<"hotel", <<"zhu4", "su">> >>,
   meal   |-> <<"meal", <<"can", "yin">> >>]

\* "keyword in text or keyword.lower() in text_lower"
KeywordHit(text, keyword) ==
  Contains(text, keyword) \/ Contains(Lower(text), Lower(keyword))

\* the loop of _detect_type from the k-th entry of the table on
RECURSIVE DetectFrom(_, _, _)
DetectFrom(table, text, k) ==
  IF k > Len(table) THEN <<"other", <<"qi2", "ta">> >>
  ELSE IF /\ \E n \in DOMAIN table[k].keywords : KeywordHit(text, table[k].keywords[n])
          /\ table[k].type_key \in DOMAIN type_map
       THEN type_map[table[k].type_key]
       ELSE DetectFrom(table, text, k + 1)

_detect_type(text) ==
  DetectFrom(CATEGORY_KEYWORDS, text, 1)

\* (\d+\.?\d*) at position i, greedy: the position after it, 0 when s[i] is
\* no digit
NumberEnd(s, i) ==
  IF ~CharIn(s, i, Digits) THEN 0
  ELSE LET j == SkipClass(s, i, Digits)
       IN  IF CharIn(s, j, {"."}) THEN SkipClass(s, j + 1, Digits) ELSE j

\* AMOUNT_PATTERNS: a label, [：:]*\s*, with "yen" [¥￥]?\s*, and the number;
\* a yen sign, \s* and the number; the number, \s* and U+5143; a label,
\* [：:]*\s* and the number
AMOUNT_PATTERNS ==
  << [kind |-> "label", yen |-> TRUE,
      words |-> << <<"he", "ji3">>, <<"zong", "ji3">>, <<"shi", "fu">>, <<"shi", "shou">>,
                   <<"jin", "e2">>, <<"jia", "shui", "he", "ji3">>, <<"ying", "fu">>,
                   <<"zhi1", "fu">> >>],
     [kind |-> "sign", yen |-> TRUE, words |-> <<>>],
     [kind |-> "unit", yen |-> FALSE, words |-> <<>>],
     [kind |-> "label", yen |-> FALSE,
      words |-> << <<"xiao", "ji3">>, <<"zong", "e2">> >>] >>

\* the match of a label pattern at i with the alternative w: <<first
\* position of the group, position after the group, position after the
\* match>>, <<>> if there is none
LabelMatch(s, i, w, yen) ==
  IF ~StartsWith(s, i, w) THEN <<>>
  ELSE LET k1 == SkipClass(s, i + Len(w), Colons)
           k2 == SkipClass(s, k1, Whitespace)
           k3 == IF yen /\ CharIn(s, k2, YenSigns) THEN k2 + 1 ELSE k2
           k4 == IF yen THEN SkipClass(s, k3, Whitespace) ELSE k3
           e  == NumberEnd(s, k4)
       IN  IF e = 0 THEN <<>> ELSE <<k4, e, e>>

\* the match of an amount pattern that starts at position i
AmountMatchAt(pat, s, i) ==
  CASE pat.kind = "label" ->
         LET alts == {n \in DOMAIN pat.words : LabelMatch(s, i, pat.words[n], pat.yen) # <<>>}
         IN  IF alts = {} THEN <<>>
             ELSE LabelMatch(s, i, pat.words[CHOOSE n \in alts : \A m \in alts : n <= m],
                             pat.yen)
    [] pat.kind = "sign" ->
         IF ~CharIn(s, i, YenSigns) THEN <<>>
         ELSE LET k == SkipClass(s, i + 1, Whitespace)
                  e == NumberEnd(s, k)
              IN  IF e = 0 THEN <<>> ELSE <<k, e, e>>
    [] pat.kind = "unit" ->
         LET e == NumberEnd(s, i)
             k == SkipClass(s, e, Whitespace)
         IN  IF e # 0 /\ CharIn(s, k, {"yuan"}) THEN <<i, e, k + 1>> ELSE <<>>

\* re.findall(pattern, text) from position pos on: the groups of the
\* non-overlapping matches, leftmost first
RECURSIVE FindAll(_, _, _)
FindAll(pat, s, pos) ==
  LET starts == {i \in pos..Len(s) : AmountMatchAt(pat, s, i) # <<>>}
  IN  IF starts = {} THEN <<>>
      ELSE LET i == CHOOSE i \in starts : \A j \in starts : i <= j
               m == AmountMatchAt(pat, s, i)
           IN  <<SubSeq(s, m[1], m[2] - 1)>> \o FindAll(pat, s, m[3])

\* int() of a string of decimal digits
RECURSIVE DigitsNum(_)
DigitsNum(d) ==
  IF d = <<>> THEN 0
  ELSE 10 * DigitsNum(SubSeq(d, 1, Len(d) - 1)) + DigitVal(d[Len(d)])

\* int(s) and float(s) raise ValueError unless s is a number
IntOk(s) == s # <<>> /\ \A k \in DOMAIN s : s[k] \in Digits

FloatOk(s) == NumberEnd(s, 1) = Len(s) + 1

\* a float is the decimal whole.frac, as the digits of whole without leading
\* zeros and those of frac without trailing zeros (the amounts of a receipt
\* have few digits, and float() is monotone)
RECURSIVE DropLeadingZeros(_)
DropLeadingZeros(d) ==
  IF d # <<>> /\ Head(d) = "0" THEN DropLeadingZeros(Tail(d)) ELSE d

RECURSIVE DropTrailingZeros(_)
DropTrailingZeros(d) ==
  IF d # <<>> /\ d[Len(d)] = "0" THEN DropTrailingZeros(SubSeq(d, 1, Len(d) - 1)) ELSE d

\* float(m) of a string \d+\.?\d*
Float(m) ==
  LET dot == SkipClass(m, 1, Digits)
  IN  [whole |-> DropLeadingZeros(SubSeq(m, 1, dot - 1)),
       frac  |-> DropTrailingZeros(SubSeq(m, dot + 1, Len(m)))]

\* 0.0
Zero == [whole |-> <<>>, frac |-> <<>>]

\* digit strings compared from the left, the shorter one continued with zeros
DigitsLess(a, b) ==
  \E k \in 1..(IF Len(a) < Len(b) THEN Len(b) ELSE Len(a)) :
     /\ (IF k <= Len(a) THEN DigitVal(a[k]) ELSE 0) < (IF k <= Len(b) THEN DigitVal(b[k]) ELSE 0)
     /\ \A j \in 1..(k - 1) :
          (IF j <= Len(a) THEN a[j] ELSE "0") = (IF j <= Len(b) THEN b[j] ELSE "0")

\* a < b
FloatLess(a, b) ==
  \/ Len(a.whole) < Len(b.whole)
  \/ Len(a.whole) = Len(b.whole) /\ DigitsLess(a.whole, b.whole)
  \/ a.whole = b.whole /\ DigitsLess(a.frac, b.frac)

\* max(amounts)
MaxFloat(amounts) ==
  amounts[CHOOSE k \in DOMAIN amounts :
            \A j \in DOMAIN amounts : ~FloatLess(amounts[k], amounts[j])]

\* [float(m) for m in matches if float(m) > 0]
PositiveAmounts(matches) ==
  LET IsPositive(a) == FloatLess(Zero, a)
  IN  SelectSeq([k \in DOMAIN matches |-> Float(matches[k])], IsPositive)

\* _extract_amount that stops at the first pattern that matches at all
RECURSIVE ExtractAmountFirstMatching(_, _)
ExtractAmountFirstMatching(text, p) ==
  IF p > Len(AMOUNT_PATTERNS) THEN Zero
  ELSE LET matches == FindAll(AMOUNT_PATTERNS[p], text, 1)
           amounts == PositiveAmounts(matches)
       IN  IF matches # <<>>
           THEN (IF amounts # <<>> THEN MaxFloat(amounts) ELSE Zero)
           ELSE ExtractAmountFirstMatching(text, p + 1)

\* the loop of _extract_amount from the p-th pattern on
RECURSIVE ExtractAmountFrom(_, _)
ExtractAmountFrom(text, p) ==
  IF p > Len(AMOUNT_PATTERNS) THEN Zero
  ELSE LET matches == FindAll(AMOUNT_PATTERNS[p], text, 1)
           amounts == PositiveAmounts(matches)
       IN  IF matches # <<>> /\ amounts # <<>> THEN MaxFloat(amounts)
           ELSE ExtractAmountFrom(text, p + 1)

_extract_amount(text) ==
  ExtractAmountFrom(text, 1)

\* DATE_PATTERNS: (\d{4})[U+5E74\-/](\d{1,2})[U+6708\-/](\d{1,2})[U+65E5 U+53F7]?
\* and (\d{4})(\d{2})(\d{2})
DATE_PATTERNS ==
  << [kind |-> "separated", year_sep |-> {"nian", "-", "/"}, month_sep |-> {"yue", "-", "/"}],
     [kind |-> "compact", year_sep |-> {}, month_sep |-> {}] >>

\* the groups (year, month, day) of the match of a date pattern that starts
\* at position i, <<>> if there is none
DateMatchAt(pat, s, i) ==
  CASE pat.kind = "separated" ->
         LET m == IF CharIn(s, i + 6, Digits) THEN 2 ELSE 1
             d == IF CharIn(s, i + 7 + m, Digits) THEN 2 ELSE 1
         IN  IF /\ \A k \in i..(i + 3) : CharIn(s, k, Digits)
                /\ CharIn(s, i + 4, pat.year_sep)
                /\ CharIn(s, i + 5, Digits)
                /\ CharIn(s, i + 5 + m, pat.month_sep)
                /\ CharIn(s, i + 6 + m, Digits)
             THEN <<SubSeq(s, i, i + 3), SubSeq(s, i + 5, i + 4 + m),
                    SubSeq(s, i + 6 + m, i + 5 + m + d)>>
             ELSE <<>>
    [] pat.kind = "compact" ->
         IF \A k \in i..(i + 7) : CharIn(s, k, Digits)
         THEN <<SubSeq(s, i, i + 3), SubSeq(s, i + 4, i + 5), SubSeq(s, i + 6, i + 7)>>
         ELSE <<>>

\* re.search(pattern, text).groups() for a date pattern: those of the
\* leftmost match, <<>> for None
DateSearch(pat, s) ==
  LET starts == {i \in 1..Len(s) : DateMatchAt(pat, s, i) # <<>>}
  IN  IF starts = {} THEN <<>>
      ELSE DateMatchAt(pat, s, CHOOSE i \in starts : \A j \in starts : i <= j)

\* str(n) of a natural number
RECURSIVE Str(_)
Str(n) == IF n < 10 THEN <<DigitChars[n + 1]>> ELSE Str(n \div 10) \o <<DigitChars[(n % 10) + 1]>>

\* a format that does not pad
Format02dUnpadded(n) ==
  Str(n)

\* f"{n:02d}"
Format02d(n) ==
  IF n < 10 THEN <<"0">> \o Str(n) ELSE Str(n)

\* f"{year}-{int(month):02d}-{int(day):02d}"
FormatDate(groups) ==
  groups[1] \o <<"-">> \o Format02d(DigitsNum(groups[2])) \o <<"-">>
    \o Format02d(DigitsNum(groups[3]))

\* the loop of _extract_date from the p-th pattern of the list on: the
\* groups of the first pattern that matches, <<>> if none does
RECURSIVE DateGroupsFrom(_, _, _)
DateGroupsFrom(patterns, text, p) ==
  IF p > Len(patterns) THEN <<>>
  ELSE IF DateSearch(patterns[p], text) # <<>> THEN DateSearch(patterns[p], text)
       ELSE DateGroupsFrom(patterns, text, p + 1)

\* int(month) and int(day) succeed
DateOk(text) ==
  LET g == DateGroupsFrom(DATE_PATTERNS, text, 1)
  IN  g = <<>> \/ (IntOk(g[2]) /\ IntOk(g[3]))

_extract_date(text) ==
  LET g == DateGroupsFrom(DATE_PATTERNS, text, 1)
  IN  IF g = <<>> THEN <<>> ELSE FormatDate(g)

\* INVOICE_PATTERNS: a label, the separators (any number of them with
\* "many", else at most one), \s* and (\d+)
INVOICE_PATTERNS ==
  << [word |-> <<"fa", "piao", "hao4", "ma">>, sep |-> Colons, many |-> TRUE],
     [word |-> <<"N", "o">>, sep |-> {".", ":"}, many |-> FALSE],
     [word |-> <<"fa", "piao", "dai", "ma">>, sep |-> Colons, many |-> TRUE] >>

\* match.group(1) of an invoice-number pattern that starts at i, <<>> if
\* there is no match
NumberMatchAt(pat, s, i) ==
  IF ~StartsWith(s, i, pat.word) THEN <<>>
  ELSE LET k0 == i + Len(pat.word)
           k1 == IF pat.many THEN SkipClass(s, k0, pat.sep)
                 ELSE IF CharIn(s, k0, pat.sep) THEN k0 + 1 ELSE k0
           k2 == SkipClass(s, k1, Whitespace)
       IN  SubSeq(s, k2, SkipClass(s, k2, Digits) - 1)

RECURSIVE ExtractNumberFrom(_, _)
ExtractNumberFrom(text, p) ==
  IF p > Len(INVOICE_PATTERNS) THEN <<>>
  ELSE LET starts == {i \in 1..Len(text) : NumberMatchAt(INVOICE_PATTERNS[p], text, i) # <<>>}
       IN  IF starts # {}
           THEN NumberMatchAt(INVOICE_PATTERNS[p], text,
                              CHOOSE i \in starts : \A j \in starts : i <= j)
           ELSE ExtractNumberFrom(text, p + 1)

_extract_invoice_number(text) ==
  ExtractNumberFrom(text, 1)

\* invoice_keywords of _is_formal_invoice
FormalKeywords ==
  { <<"fa", "piao", "dai", "ma">>, <<"fa", "piao", "hao4", "ma">>, <<"shui", "e2">>,
    <<"jia", "shui", "he", "ji3">>, <<"zeng", "zhi2", "shui">>,
    <<"dian4", "zi", "fa", "piao">> }

_is_formal_invoice(text) ==
  \E kw \in FormalKeywords : Contains(text, kw)

\* patterns of _extract_merchant: a label, [：:]*\s*, and a group of
\* characters other than "\n": greedy to the end of the line, or, with
\* endings, the shortest that ends with one of them
MerchantPatterns ==
  << [words |-> << <<"xiao1", "shou4", "fang1">> >>, endings |-> {}],
     [words |-> << <<"ming", "cheng1">>, <<"gong", "si">> >>,
      endings |-> { <<"gong", "si">>, <<"dian">>, <<"can", "ting1">>, <<"jiu", "dian">> }] >>

\* [^\n] for the characters of s
NotNewline(s) == {s[j] : j \in 1..Len(s)} \ {"\n"}

\* the group that starts at k: the position after it, 0 if there is none
MerchantGroupEnd(pat, s, k) ==
  IF ~CharIn(s, k, NotNewline(s)) THEN 0
  ELSE LET eol == SkipClass(s, k, NotNewline(s))
       IN  IF pat.endings = {} THEN eol
           ELSE LET ends == {e \in (k + 1)..eol : \E w \in pat.endings : StartsWith(s, e, w)}
                IN  IF ends = {} THEN 0
                    ELSE LET e == CHOOSE e \in ends : \A f \in ends : e <= f
                         IN  e + Len(CHOOSE w \in pat.endings : StartsWith(s, e, w))

\* match.group(1) of a merchant pattern that starts at i with the label w,
\* <<>> if there is no match: [：:]*\s* gives characters back until a
\* group can start
MerchantMatch(pat, s, i, w) ==
  IF ~StartsWith(s, i, w) THEN <<>>
  ELSE LET k0 == i + Len(w)
           k2 == SkipClass(s, SkipClass(s, k0, Colons), Whitespace)
           from == {k \in k0..k2 : MerchantGroupEnd(pat, s, k) # 0}
       IN  IF from = {} THEN <<>>
           ELSE LET k == CHOOSE k \in from : \A j \in from : j <= k
                IN  SubSeq(s, k, MerchantGroupEnd(pat, s, k) - 1)

MerchantMatchAt(pat, s, i) ==
  LET alts == {n \in DOMAIN pat.words : MerchantMatch(pat, s, i, pat.words[n]) # <<>>}
  IN  IF alts = {} THEN <<>>
      ELSE MerchantMatch(pat, s, i, pat.words[CHOOSE n \in alts : \A m \in alts : n <= m])

RECURSIVE ExtractMerchantFrom(_, _)
ExtractMerchantFrom(text, p) ==
  IF p > Len(MerchantPatterns) THEN <<>>
  ELSE LET starts == {i \in 1..Len(text) : MerchantMatchAt(MerchantPatterns[p], text, i) # <<>>}
       IN  IF starts # {}
           THEN Take(Strip(MerchantMatchAt(MerchantPatterns[p], text,
                                           CHOOSE i \in starts : \A j \in starts : i <= j)), 50)
           ELSE ExtractMerchantFrom(text, p + 1)

_extract_merchant(text) ==
  ExtractMerchantFrom(text, 1)

\* LocalAnalyzer._create_empty_info(file_path, description)
_create_empty_info(text, description) ==
  [type |-> "other", subtype |-> <<"wei", "shi2", "bie">>, amount |-> Zero, date |-> <<>>,
   service_date |-> <<>>, merchant |-> <<>>, invoice_number |-> <<>>, is_invoice |-> FALSE,
   description |-> description, raw_text |-> text, order_number |-> <<>>]

\* LocalAnalyzer.analyze: "if not ocr_text.strip(): return self._create_empty_info(...)"
AnalyzeBegin ==
  /\ analyze_pc = "start"
  /\ IF Strip(raw_text) = <<>>
     THEN /\ analyze_frame' =
               [info |-> _create_empty_info(raw_text,
                                            <<"wu2", "fa3", "shi2", "bie", "nei", "rong">>)]
          /\ analyze_pc' = "done"
     ELSE /\ analyze_frame' = analyze_frame
          /\ analyze_pc' = "type"
  /\ UNCHANGED raw_text
  /\ UNCHANGED outside_analyze

\* inv_type, subtype = self._detect_type(ocr_text)
AnalyzeType ==
  /\ analyze_pc = "type"
  /\ analyze_frame' = [inv_type |-> _detect_type(raw_text)[1],
                       subtype |-> _detect_type(raw_text)[2]] @@ analyze_frame
  /\ analyze_pc' = "amount"
  /\ UNCHANGED raw_text
  /\ UNCHANGED outside_analyze

\* amount = self._extract_amount(ocr_text); float(m) raises ValueError on a
\* match that is no number
AnalyzeAmount ==
  /\ analyze_pc = "amount"
  /\ IF \A p \in DOMAIN AMOUNT_PATTERNS :
          LET matches == FindAll(AMOUNT_PATTERNS[p], raw_text, 1)
          IN  \A k \in DOMAIN matches : FloatOk(matches[k])
     THEN /\ analyze_frame' = [amount |-> _extract_amount(raw_text)] @@ analyze_frame
          /\ analyze_pc' = "date"
     ELSE /\ analyze_frame' = analyze_frame
          /\ analyze_pc' = "raised"
  /\ UNCHANGED raw_text
  /\ UNCHANGED outside_analyze

\* date = self._extract_date(ocr_text); int(month) and int(day) raise
\* ValueError on a group that is no number
AnalyzeDate ==
  /\ analyze_pc = "date"
  /\ IF DateOk(raw_text)
     THEN /\ analyze_frame' = [date |-> _extract_date(raw_text)] @@ analyze_frame
          /\ analyze_pc' = "invoice_number"
     ELSE /\ analyze_frame' = analyze_frame
          /\ analyze_pc' = "raised"
  /\ UNCHANGED raw_text
  /\ UNCHANGED outside_analyze

\* invoice_number = self._extract_invoice_number(ocr_text)
AnalyzeInvoiceNumber ==
  /\ analyze_pc = "invoice_number"
  /\ analyze_frame' = [invoice_number |-> _extract_invoice_number(raw_text)] @@ analyze_frame
  /\ analyze_pc' = "is_invoice"
  /\ UNCHANGED raw_text
  /\ UNCHANGED outside_analyze

\* is_invoice = self._is_formal_invoice(ocr_text)
AnalyzeIsInvoice ==
  /\ analyze_pc = "is_invoice"
  /\ analyze_frame' = [is_invoice |-> _is_formal_invoice(raw_text)] @@ analyze_frame
  /\ analyze_pc' = "merchant"
  /\ UNCHANGED raw_text
  /\ UNCHANGED outside_analyze

\* merchant = self._extract_merchant(ocr_text)
AnalyzeMerchant ==
  /\ analyze_pc = "merchant"
  /\ analyze_frame' = [merchant |-> _extract_merchant(raw_text)] @@ analyze_frame
  /\ analyze_pc' = "return"
  /\ UNCHANGED raw_text
  /\ UNCHANGED outside_analyze

\* return InvoiceInfo(...)
AnalyzeReturn ==
  /\ analyze_pc = "return"
  /\ analyze_frame' =
       [info |->
          [type |-> analyze_frame.inv_type, subtype |-> analyze_frame.subtype,
           amount |-> analyze_frame.amount, date |-> analyze_frame.date,
           service_date |-> analyze_frame.date, merchant |-> analyze_frame.merchant,
           invoice_number |-> analyze_frame.invoice_number,
           is_invoice |-> analyze_frame.is_invoice,
           description |-> <<"ben", "di4", "shi2", "bie", ":", " ">> \o analyze_frame.subtype,
           raw_text |-> raw_text, order_number |-> <<>>]] @@ analyze_frame
  /\ analyze_pc' = "done"
  /\ UNCHANGED raw_text
  /\ UNCHANGED outside_analyze

NextAnalyze ==
  \/ AnalyzeBegin
  \/ AnalyzeType
  \/ AnalyzeAmount
  \/ AnalyzeDate
  \/ AnalyzeInvoiceNumber
  \/ AnalyzeIsInvoice
  \/ AnalyzeMerchant
  \/ AnalyzeReturn

\* analyze is called with the text; InitAnalyze(<<>>, "idle") when it is not called
InitAnalyze(text, at) ==
  /\ raw_text = text
  /\ analyze_pc = at
  /\ analyze_frame = <<>>

----------------------------------------------------------------------------
(* web_app.py: the tasks dictionary, its lock, the threads and the requests *)

\* A task id is the number of the upload.  The paths of task t are
\* <<"temp_dir", t>>, <<"output_dir", t>> and <<"zip_path", t>>.

\* the statuses of a task in the order process_task assigns them
StatusOrder ==
  <<"queued", "processing", "organizing", "generating_report", "packing", "completed">>

\* upload: a request with files allowed_file accepts (DEEPSEEK_API_KEY is
\* set, or upload answers 500 and registers nothing); ok tells whether
\* is_supported_file accepts one of the names saved (it rejects ".pdf",
\* which allowed_file accepts)
Upload(ok) ==
  /\ ~exited
  /\ Len(task) < MaxUploads
  /\ tasks_lock = 0
  /\ LET t == Len(task) + 1
     IN  /\ tasks' = tasks \cup {t}
         /\ task' = Append(task, [status |-> "queued", zip_path |-> FALSE])
         /\ disk' = disk \cup {<<"temp_dir", t>>, <<"output_dir", t>>}
  /\ supported' = Append(supported, ok)
  /\ proc_pc' = Append(proc_pc, "start")
  /\ deleted' = Append(deleted, 0)
  /\ UNCHANGED <<cleaners, tasks_lock, reqs, exited>>
  /\ UNCHANGED outside_web

\* cleanup_task(task_id, delay): a thread that sleeps, then cleans
cleanup_task(t) == Append(cleaners, [task |-> t, kind |-> "delayed", pc |-> "sleep"])

\* process_task up to "task['status'] = 'processing'": without a file
\* is_supported_file accepts it sets the status error and returns
ProcScan(t) ==
  /\ ~exited
  /\ proc_pc[t] = "start"
  /\ IF supported[t]
     THEN /\ task' = [task EXCEPT ![t].status = "processing"]
          /\ proc_pc' = [proc_pc EXCEPT ![t] = "files"]
     ELSE /\ task' = [task EXCEPT ![t].status = "error"]
          /\ proc_pc' = [proc_pc EXCEPT ![t] = "ended"]
  /\ UNCHANGED <<tasks, disk, supported, cleaners, tasks_lock, reqs, deleted, exited>>
  /\ UNCHANGED outside_web

\* the loop over the files, which catches what extraction and analysis
\* raise, and "task['status'] = 'organizing'"
ProcFiles(t) ==
  /\ ~exited
  /\ proc_pc[t] = "files"
  /\ task' = [task EXCEPT ![t].status = "organizing"]
  /\ proc_pc' = [proc_pc EXCEPT ![t] = "organize"]
  /\ UNCHANGED <<tasks, disk, supported, cleaners, tasks_lock, reqs, deleted, exited>>
  /\ UNCHANGED outside_web

\* organize returns, and "task['status'] = 'generating_report'"
ProcOrganize(t) ==
  /\ ~exited
  /\ proc_pc[t] = "organize"
  /\ task' = [task EXCEPT ![t].status = "generating_report"]
  /\ proc_pc' = [proc_pc EXCEPT ![t] = "report"]
  /\ UNCHANGED <<tasks, disk, supported, cleaners, tasks_lock, reqs, deleted, exited>>
  /\ UNCHANGED outside_web

\* generate_report returns, the summary, and "task['status'] = 'packing'"
ProcReport(t) ==
  /\ ~exited
  /\ proc_pc[t] = "report"
  /\ task' = [task EXCEPT ![t].status = "packing"]
  /\ proc_pc' = [proc_pc EXCEPT ![t] = "pack"]
  /\ UNCHANGED <<tasks, disk, supported, cleaners, tasks_lock, reqs, deleted, exited>>
  /\ UNCHANGED outside_web

\* the zip file is written, and "task['zip_path'] = zip_path"
ProcPack(t) ==
  /\ ~exited
  /\ proc_pc[t] = "pack"
  /\ disk' = disk \cup {<<"zip_path", t>>}
  /\ task' = [task EXCEPT ![t].zip_path = TRUE]
  /\ proc_pc' = [proc_pc EXCEPT ![t] = "packed"]
  /\ UNCHANGED <<tasks, supported, cleaners, tasks_lock, reqs, deleted, exited>>
  /\ UNCHANGED outside_web

\* "task['status'] = 'completed'"
ProcComplete(t) ==
  /\ ~exited
  /\ proc_pc[t] = "packed"
  /\ task' = [task EXCEPT ![t].status = "completed"]
  /\ proc_pc' = [proc_pc EXCEPT ![t] = "completed"]
  /\ UNCHANGED <<tasks, disk, supported, cleaners, tasks_lock, reqs, deleted, exited>>
  /\ UNCHANGED outside_web

\* "shutil.rmtree(temp_dir, ignore_errors=True)" and
\* "cleanup_task(task_id, delay=1800)"
ProcFinish(t) ==
  /\ ~exited
  /\ proc_pc[t] = "completed"
  /\ disk' = disk \ {<<"temp_dir", t>>}
  /\ cleaners' = cleanup_task(t)
  /\ proc_pc' = [proc_pc EXCEPT ![t] = "ended"]
  /\ UNCHANGED <<tasks, task, supported, tasks_lock, reqs, deleted, exited>>
  /\ UNCHANGED outside_web

\* the positions of process_task at which a call raises: organize (OSError
\* of a move or copy), generate_report and the writing of the zip file
Raising == {"organize", "report", "pack"}

\* "except Exception": the status error and "cleanup_task(task_id, delay=300)";
\* a zip file that was being written may exist, and task has no 'zip_path'
ProcRaises(t) ==
  /\ ~exited
  /\ proc_pc[t] \in Raising
  /\ task' = [task EXCEPT ![t].status = "error"]
  /\ IF proc_pc[t] = "pack"
     THEN disk' \in {disk, disk \cup {<<"zip_path", t>>}}
     ELSE disk' = disk
  /\ cleaners' = cleanup_task(t)
  /\ proc_pc' = [proc_pc EXCEPT ![t] = "ended"]
  /\ UNCHANGED <<tasks, supported, tasks_lock, reqs, deleted, exited>>
  /\ UNCHANGED outside_web

\* do_cleanup and quick_cleanup: the sleep is over, "with tasks_lock"
CleanerLock(c) ==
  /\ ~exited
  /\ cleaners[c].pc = "sleep"
  /\ tasks_lock = 0
  /\ tasks_lock' = c
  /\ cleaners' = [cleaners EXCEPT ![c].pc = "locked"]
  /\ UNCHANGED <<tasks, task, disk, supported, proc_pc, reqs, deleted, exited>>
  /\ UNCHANGED outside_web

\* the paths a cleanup removes: do_cleanup those of temp_dir, output_dir and
\* zip_path, quick_cleanup those of output_dir and zip_path, and zip_path
\* only if the task has the key
Removed(kind, t, has_zip_path) ==
  (IF kind = "delayed" THEN {<<"temp_dir", t>>} ELSE {})
    \cup {<<"output_dir", t>>}
    \cup (IF has_zip_path THEN {<<"zip_path", t>>} ELSE {})

\* "if task_id in tasks:" and the removal of the directories and the zip
\* file; the lock is released if the task is not in tasks
CleanerFiles(c) ==
  /\ ~exited
  /\ cleaners[c].pc = "locked"
  /\ LET t == cleaners[c].task
     IN  IF t \in tasks
         THEN /\ disk' = disk \ Removed(cleaners[c].kind, t, task[t].zip_path)
              /\ cleaners' = [cleaners EXCEPT ![c].pc = "del"]
              /\ UNCHANGED tasks_lock
         ELSE /\ cleaners' = [cleaners EXCEPT ![c].pc = "done"]
              /\ tasks_lock' = 0
              /\ UNCHANGED disk
  /\ UNCHANGED <<tasks, task, supported, proc_pc, reqs, deleted, exited>>
  /\ UNCHANGED outside_web

\* "del tasks[task_id]", and the lock is released
CleanerDel(c) ==
  /\ ~exited
  /\ cleaners[c].pc = "del"
  /\ tasks' = tasks \ {cleaners[c].task}
  /\ deleted' = [deleted EXCEPT ![cleaners[c].task] = @ + 1]
  /\ cleaners' = [cleaners EXCEPT ![c].pc = "done"]
  /\ tasks_lock' = 0
  /\ UNCHANGED <<task, disk, supported, proc_pc, reqs, exited>>
  /\ UNCHANGED outside_web

\* a request GET /status/<t> or GET /download/<t> arrives
Request(kind, t) ==
  /\ ~exited
  /\ Len(reqs) < MaxRequests
  /\ reqs' = Append(reqs, [kind |-> kind, task |-> t, pc |-> "check", result |-> "none"])
  /\ UNCHANGED <<tasks, task, disk, supported, proc_pc, cleaners, tasks_lock, deleted, exited>>
  /\ UNCHANGED outside_web

\* status and download: "if task_id not in tasks: return ..., 404"
ReqCheck(r) ==
  /\ ~exited
  /\ reqs[r].pc = "check"
  /\ reqs' = IF reqs[r].task \in tasks
             THEN [reqs EXCEPT ![r].pc = "lookup"]
             ELSE [reqs EXCEPT ![r].pc = "done", ![r].result = "404"]
  /\ UNCHANGED <<tasks, task, disk, supported, proc_pc, cleaners, tasks_lock, deleted, exited>>
  /\ UNCHANGED outside_web

\* status and download: "task = tasks[task_id]", which raises KeyError if the
\* key is not in the dictionary
ReqLookup(r) ==
  /\ ~exited
  /\ reqs[r].pc = "lookup"
  /\ reqs' = IF reqs[r].task \in tasks
             THEN [reqs EXCEPT ![r].pc = "read"]
             ELSE [reqs EXCEPT ![r].pc = "done", ![r].result = "KeyError"]
  /\ UNCHANGED <<tasks, task, disk, supported, proc_pc, cleaners, tasks_lock, deleted, exited>>
  /\ UNCHANGED outside_web

\* status: the response is built from the task
StatusAnswer(r) ==
  /\ ~exited
  /\ reqs[r].pc = "read"
  /\ reqs[r].kind = "status"
  /\ reqs' = [reqs EXCEPT ![r].pc = "done", ![r].result = "200"]
  /\ UNCHANGED <<tasks, task, disk, supported, proc_pc, cleaners, tasks_lock, deleted, exited>>
  /\ UNCHANGED outside_web

\* the answer of download that serves the zip whatever the status is
DownloadResultAnyStatus(status, has_zip_path, on_disk) ==
  IF ~has_zip_path \/ ~on_disk THEN "404" ELSE "zip"

\* the answer of download: 400 unless the status is completed, 404 if the
\* task has no zip_path or the file does not exist, else the zip file
DownloadResult(status, has_zip_path, on_disk) ==
  IF status # "completed" THEN "400"
  ELSE IF ~has_zip_path \/ ~on_disk THEN "404" ELSE "zip"

\* download: the answer, and after a zip was served the thread quick_cleanup
DownloadAnswer(r) ==
  /\ ~exited
  /\ reqs[r].pc = "read"
  /\ reqs[r].kind = "download"
  /\ LET t == reqs[r].task
         result == DownloadResult(task[t].status, task[t].zip_path, <<"zip_path", t>> \in disk)
     IN  /\ reqs' = [reqs EXCEPT ![r].pc = "done", ![r].result = result]
         /\ cleaners' = IF result = "zip"
                        THEN Append(cleaners, [task |-> t, kind |-> "quick", pc |-> "sleep"])
                        ELSE cleaners
  /\ UNCHANGED <<tasks, task, disk, supported, proc_pc, tasks_lock, deleted, exited>>
  /\ UNCHANGED outside_web

\* cleanup_all_tasks, registered with atexit: the server process ends
Shutdown ==
  /\ ~exited
  /\ tasks_lock = 0
  /\ disk' = disk \ UNION {Removed("delayed", t, task[t].zip_path) : t \in tasks}
  /\ tasks' = {}
  /\ exited' = TRUE
  /\ UNCHANGED <<task, supported, proc_pc, cleaners, tasks_lock, reqs, deleted>>
  /\ UNCHANGED outside_web

NextWeb ==
  \/ \E ok \in BOOLEAN : Upload(ok)
  \/ \E t \in DOMAIN task : ProcScan(t)
  \/ \E t \in DOMAIN task : ProcFiles(t)
  \/ \E t \in DOMAIN task : ProcOrganize(t)
  \/ \E t \in DOMAIN task : ProcReport(t)
  \/ \E t \in DOMAIN task : ProcPack(t)
  \/ \E t \in DOMAIN task : ProcComplete(t)
  \/ \E t \in DOMAIN task : ProcFinish(t)
  \/ \E t \in DOMAIN task : ProcRaises(t)
  \/ \E c \in DOMAIN cleaners : CleanerLock(c)
  \/ \E c \in DOMAIN cleaners : CleanerFiles(c)
  \/ \E c \in DOMAIN cleaners : CleanerDel(c)
  \/ \E kind \in {"status", "download"}, t \in 1..MaxUploads : Request(kind, t)
  \/ \E r \in DOMAIN reqs : ReqCheck(r)
  \/ \E r \in DOMAIN reqs : ReqLookup(r)
  \/ \E r \in DOMAIN reqs : StatusAnswer(r)
  \/ \E r \in DOMAIN reqs : DownloadAnswer(r)
  \/ Shutdown

\* the server has started: no task, no thread, no request
InitWeb ==
  /\ tasks = {}
  /\ task = <<>>
  /\ disk = {}
  /\ supported = <<>>
  /\ proc_pc = <<>>
  /\ cleaners = <<>>
  /\ tasks_lock = 0
  /\ reqs = <<>>
  /\ deleted = <<>>
  /\ exited = FALSE

----------------------------------------------------------------------------
(* Batches *)

\* the path of the k-th scanned file
SourcePath(k, suffix) ==
  [parent |-> << <<(<<"input">>)>> >>, stem |-> << <<"scan">>, <<ToString(k)>> >>,
   suffix |-> suffix]

\* a batch is built from the field values of its records; file k is at SourcePath(k, _)
MakeBatch(fields) ==
  [k \in 1..Len(fields) |->
     [type |-> fields[k].type, subtype |-> fields[k].subtype,
      amount |-> fields[k].amount, date |-> fields[k].date,
      service_date |-> fields[k].service_date, merchant |-> fields[k].merchant,
      invoice_number |-> <<>>, is_invoice |-> fields[k].is_invoice,
      description |-> fields[k].description,
      file_path |-> SourcePath(k, fields[k].suffix)]]

SeqsUpTo(S, n) == UNION {[1..m -> S] : m \in 0..n}

InitBatch(fields) ==
  /\ infos = MakeBatch(fields)
  /\ pc = "start"
  /\ paired_groups = <<>>
  /\ scores = <<>>
  /\ gi = 1
  /\ idx = 1
  /\ group_date = <<>>
  /\ category_name = ""
  /\ folder_name = <<>>
  /\ categorized = <<>>
  /\ fs = {SourcePath(k, fields[k].suffix) : k \in 1..Len(fields)}
  /\ io_log = <<>>

\* a batch to organize, and no task running
InitWith(fields) ==
  InitBatch(fields) /\ InitTasks(<<>>) /\ InitAnalyze(<<>>, "idle") /\ InitRun /\ InitWeb

\* two platforms: Didi, and Gaode
Didi == <<"di", "di">>

Gaode == <<"gao", "de2">>

\* "Didi gongsi" (Didi company): normalizes to Didi
DidiGongsi == <<"D", "i", "di", "gong", "si">>

Jan31 == <<"2024", "01", "31">>

Feb01 == <<"2024", "02", "01">>

Feb03 == <<"2024", "02", "03">>

\* has the shape YYYY-MM-DD and is no date
Feb30 == <<"2024", "02", "30">>

\* batches of up to MaxBatch records that differ in what the matcher reads and
\* agree in what names their files; both copy and move mode
MatchFields ==
  [type : {"taxi"}, subtype : {Didi, Gaode}, amount : {0},
   date : {<<>>}, service_date : {<<>>}, merchant : {<<"v">>, <<"w">>},
   is_invoice : BOOLEAN, description : {<<>>}, suffix : {".pdf"}]

Init ==
  /\ copy_mode \in BOOLEAN
  /\ \E fields \in SeqsUpTo(MatchFields, MaxBatch) : InitWith(fields)

Spec == Init /\ [][Next]_vars

\* batches of up to MaxClassifyBatch records that differ in what the
\* classifier reads: type (also one outside the enumeration), dates, formality
ClassifyFields ==
  [type : {"taxi", "other", "bus"}, subtype : {Didi}, amount : {100},
   date : {<<>>, Feb03}, service_date : {<<>>, Feb01}, merchant : {<<>>},
   is_invoice : BOOLEAN, description : {<<>>}, suffix : {".pdf"}]

InitClassify ==
  /\ copy_mode = FALSE
  /\ \E fields \in SeqsUpTo(ClassifyFields, MaxClassifyBatch) : InitWith(fields)

SpecClassify == InitClassify /\ [][Next]_vars

\* batches of up to MaxPlaceBatch records of one platform and day that differ
\* in what names their files: formality, description, extension
PlaceFields ==
  [type : {"taxi"}, subtype : {Didi}, amount : {0},
   date : {<<>>}, service_date : {Feb01}, merchant : {<<>>},
   is_invoice : BOOLEAN, description : {<<>>, <<"1">>}, suffix : {".pdf", ".jpg"}]

InitPlace ==
  /\ copy_mode \in BOOLEAN
  /\ \E fields \in SeqsUpTo(PlaceFields, MaxPlaceBatch) : InitWith(fields)

SpecPlace == InitPlace /\ [][Next]_vars

\* one voucher and one formal invoice that differ in every field
\* _calculate_match_score reads
ScoreVoucherFields ==
  [type : {"taxi"}, subtype : {<<>>, Didi, DidiGongsi}, amount : {0, 100},
   date : {<<>>, Jan31, Feb30}, service_date : {<<>>, Feb01}, merchant : {<<"G", " ">>},
   is_invoice : {FALSE}, description : {<<>>}, suffix : {".pdf"}]

ScoreInvoiceFields ==
  [type : {"taxi", "other"}, subtype : {<<>>, Didi, Gaode},
   amount : {0, 80, 95, 99, 100},
   date : {<<>>, Jan31}, service_date : {<<>>, Feb01, Feb03, Feb30},
   merchant : {<<"g">>, <<"w">>},
   is_invoice : {TRUE}, description : {<<>>}, suffix : {".pdf"}]

InitScore ==
  /\ copy_mode = FALSE
  /\ \E v \in ScoreVoucherFields, i \in ScoreInvoiceFields :
       \E fields \in {<<v, i>>, <<i, v>>} : InitWith(fields)

SpecScore == InitScore /\ [][Next]_vars

\* the record process_files appends when OCR or analysis raised: "chuli
\* shibai" (processing failed) with the error text e in the description
FailureRecord ==
  [type |-> "other", subtype |-> <<"chu3", "li", "shi", "bai">>, amount |-> 0,
   date |-> <<>>, service_date |-> <<>>, merchant |-> <<>>, is_invoice |-> FALSE,
   description |-> <<"chu3", "li", "shi", "bai", ":", " ", "e">>, suffix |-> ".pdf"]

\* batches of up to MaxFailureBatch records, failure records among records the
\* analysis returned with or without a merchant
FailureFields ==
  {FailureRecord} \cup
  [type : {"taxi", "other"}, subtype : {Didi}, amount : {0},
   date : {<<>>}, service_date : {Feb01}, merchant : {<<>>, <<"w">>},
   is_invoice : BOOLEAN, description : {<<>>}, suffix : {".pdf"}]

InitFailure ==
  /\ copy_mode = TRUE
  /\ \E fields \in SeqsUpTo(FailureFields, MaxFailureBatch) : InitWith(fields)

SpecFailure == InitFailure /\ [][Next]_vars

\* one voucher scored against two formal invoices, or two vouchers against one
\* invoice, where the two differ in one of the fields subtype, amount,
\* service_date and date
MonotoneVoucherFields ==
  [type : {"taxi"}, subtype : {Didi}, amount : {0, 100},
   date : {<<>>, Jan31, Feb30}, service_date : {<<>>}, merchant : {<<"g">>},
   is_invoice : {FALSE}, description : {<<>>}, suffix : {".pdf"}]

MonotoneInvoiceFields ==
  [type : {"taxi"}, subtype : {Didi, Gaode, DidiGongsi}, amount : {0, 95, 100},
   date : {<<>>, Jan31}, service_date : {<<>>, Jan31, Feb01, Feb30},
   merchant : {<<"g">>, <<"w">>},
   is_invoice : {TRUE}, description : {<<>>}, suffix : {".pdf"}]

\* the records that differ from r in at most one field the score reads
OneFieldChanged(r) ==
  {[r EXCEPT !.subtype = x] : x \in {Didi, Gaode, DidiGongsi}}
    \cup {[r EXCEPT !.type = x] : x \in {"taxi", "other"}}
    \cup {[r EXCEPT !.amount = x] : x \in {0, 95, 100}}
    \cup {[r EXCEPT !.service_date = x] : x \in {<<>>, Jan31, Feb01, Feb30}}
    \cup {[r EXCEPT !.date = x] : x \in {<<>>, Jan31, Feb30}}

InitMonotone ==
  /\ copy_mode = FALSE
  /\ \E v \in MonotoneVoucherFields, i \in MonotoneInvoiceFields :
       \/ \E i2 \in OneFieldChanged(i) : InitWith(<<v, i, i2>>)
       \/ \E v2 \in OneFieldChanged(v) : InitWith(<<v, v2, i>>)

SpecMonotone == InitMonotone /\ [][Next]_vars

\* up to MaxTasks tasks run concurrently, each with one of two API keys; no
\* batch is being organized
ApiKeys == {"key1", "key2"}

InitIsolation ==
  /\ copy_mode = TRUE
  /\ InitBatch(<<>>)
  /\ \E keys \in SeqsUpTo(ApiKeys, MaxTasks) : InitTasks(keys)
  /\ InitAnalyze(<<>>, "idle")
  /\ InitRun
  /\ InitWeb

SpecIsolation == InitIsolation /\ [][NextTask]_vars

\* a subtype of 21 characters
LongName == [k \in 1..21 |-> "x"]

\* batches of up to MaxFolderBatch records that differ in what names the
\* folder: a subtype that is absent, that sanitizes to nothing ("?", " ") or
\* that is longer than the folder name takes, a merchant, an amount
FolderFields ==
  [type : {"taxi"}, subtype : {<<>>, <<"?">>, <<" ">>, Didi, LongName}, amount : {0, 35},
   date : {<<>>}, service_date : {Feb01}, merchant : {<<>>, <<"w">>},
   is_invoice : BOOLEAN, description : {<<>>}, suffix : {".pdf"}]

InitFolder ==
  /\ copy_mode = TRUE
  /\ \E fields \in SeqsUpTo(FolderFields, MaxFolderBatch) : InitWith(fields)

SpecFolder == InitFolder /\ [][Next]_vars

\* LocalAnalyzer.analyze is called with an OCR text made of up to
\* MaxFragments pieces of a receipt: platform and category words, labelled
\* and unlabelled amounts, dates in the three notations, an invoice number,
\* a seller line, and characters that mean nothing
TextFragments ==
  { <<"mei", "tuan">>, <<"da", "che">>, <<"gao", "tie">>, <<"ji1", "piao">>,
    <<"jiu", "dian">>,
    <<"he", "ji3", ":", "0">>, <<"he", "ji3", " ", "Y", "1", "2", ".", "5">>,
    <<"jin", "e2", "3", "5">>, <<"Y", "4", "0">>, <<"8", "yuan">>,
    <<"xiao", "ji3", ":", "9">>, <<"0", ".", "0", " ", "yuan">>,
    <<"2", "0", "2", "4", "nian", "1", "yue", "5", "ri">>,
    <<"2", "0", "2", "4", "0", "2", "1", "5">>,
    <<"2", "0", "2", "4", "/", "1", "3", "/", "4", "5">>,
    <<"fa", "piao", "hao4", "ma", ":", "7", "7">>, <<"N", "o", ".", "6">>,
    <<"xiao1", "shou4", "fang1", ":", "D", "\n">>, <<"gong", "si", ":", "w">>,
    <<" ">>, <<"D">> }

RECURSIVE Concat(_)
Concat(pieces) == IF pieces = <<>> THEN <<>> ELSE Head(pieces) \o Concat(Tail(pieces))

InitLocal ==
  /\ copy_mode = TRUE
  /\ InitBatch(<<>>)
  /\ InitTasks(<<>>)
  /\ \E pieces \in SeqsUpTo(TextFragments, MaxFragments) : InitAnalyze(Concat(pieces), "start")
  /\ InitRun
  /\ InitWeb

SpecLocal == InitLocal /\ [][NextAnalyze]_vars

\* runs over batches of up to MaxSummaryBatch records that differ in
\* category, amount, formality and in having a service date
SummaryFields ==
  [type : {"taxi", "hotel"}, subtype : {Didi}, amount : {35, 100},
   date : {<<>>}, service_date : {<<>>, Feb01}, merchant : {<<>>},
   is_invoice : BOOLEAN, description : {<<>>}, suffix : {".pdf"}]

InitSummary ==
  /\ copy_mode = TRUE
  /\ \E fields \in SeqsUpTo(SummaryFields, MaxSummaryBatch) : InitWith(fields)

SpecSummary == InitSummary /\ [][NextRun]_vars

\* the web server: up to MaxUploads uploads and MaxRequests requests to
\* /status and /download, no batch organized by the command line
InitServer ==
  /\ copy_mode = TRUE
  /\ InitWith(<<>>)

SpecWeb == InitServer /\ [][NextWeb]_vars

----------------------------------------------------------------------------
(* Vocabulary of the properties *)

Range(f) == {f[k] : k \in DOMAIN f}

RECURSIVE SumLen(_)
SumLen(gs) == IF gs = <<>> THEN 0 ELSE Len(Head(gs)) + SumLen(Tail(gs))

Paired == pc # "start"

\* the positions <<g, j>> of the groups at which record k stands
PositionsOf(k) ==
  {p \in {<<g, j>> : g \in DOMAIN paired_groups, j \in 1..2} :
     p[2] <= Len(paired_groups[p[1]]) /\ paired_groups[p[1]][p[2]] = k}

IsPair(g) == Len(paired_groups[g]) = 2

\* the invoices claimed by the groups before group g
ClaimedBefore(g) == {paired_groups[h][2] : h \in {h \in 1..(g - 1) : IsPair(h)}}

InvoiceSet == {k \in DOMAIN infos : infos[k].is_invoice}

VoucherSet == {k \in DOMAIN infos : ~infos[k].is_invoice}

Score(v, i) == _calculate_match_score(infos[v], infos[i])

----------------------------------------------------------------------------
(* C1 *)

\* C1: the groups _pair_vouchers_and_invoices returns partition the batch:
\* their sizes sum to N and every record stands at exactly one position of
\* exactly one group (none omitted, none duplicated, a claimed invoice is
\* neither paired again nor emitted as a singleton).
C1_Partition ==
  Paired =>
    /\ SumLen(paired_groups) = Len(infos)
    /\ \A k \in DOMAIN infos : Cardinality(PositionsOf(k)) = 1

\* a batch of three in which one voucher claimed an invoice and another
\* invoice is left over
C1_Witness ==
  /\ Paired
  /\ Len(infos) = 3
  /\ \E g, h \in DOMAIN paired_groups :
       /\ IsPair(g)
       /\ Len(paired_groups[h]) = 1
       /\ infos[paired_groups[h][1]].is_invoice

----------------------------------------------------------------------------
(* C2 *)

\* C2: every group has one or two records, and a group of two is a voucher
\* followed by a formal invoice.
C2_GroupShape ==
  Paired =>
    \A g \in DOMAIN paired_groups :
      /\ Len(paired_groups[g]) \in {1, 2}
      /\ IsPair(g) =>
           /\ ~infos[paired_groups[g][1]].is_invoice
           /\ infos[paired_groups[g][2]].is_invoice

\* two vouchers compete for invoices and a pair is formed
C2_Witness ==
  /\ Paired
  /\ Cardinality(VoucherSet) >= 2
  /\ \E g \in DOMAIN paired_groups : IsPair(g)

----------------------------------------------------------------------------
(* C3 *)

\* the group of each voucher, in the vouchers' input order
VoucherGroups == {g \in DOMAIN paired_groups : ~infos[paired_groups[g][1]].is_invoice}

\* C3: vouchers are taken in input order; a voucher is paired iff some invoice
\* not claimed before it scores at least 2 against it, and then with the
\* invoice of the highest score among those, the earliest one among equals.
C3_GreedyBest ==
  Paired =>
    /\ \A g, h \in VoucherGroups : g < h => paired_groups[g][1] < paired_groups[h][1]
    /\ \A g \in VoucherGroups :
         LET v == paired_groups[g][1]
             open == InvoiceSet \ ClaimedBefore(g)
         IN  /\ IsPair(g) <=> \E i \in open : Score(v, i) >= 2
             /\ IsPair(g) =>
                  LET c == paired_groups[g][2]
                  IN  /\ c \in open
                      /\ Score(v, c) >= 2
                      /\ \A i \in open : Score(v, i) <= Score(v, c)
                      /\ \A i \in open : Score(v, i) = Score(v, c) => c <= i

\* a voucher chose between two open invoices of equal score, and another
\* voucher found only an invoice that scores below 2
C3_Witness ==
  /\ Paired
  /\ \E g \in VoucherGroups :
       /\ IsPair(g)
       /\ \E i \in InvoiceSet \ ClaimedBefore(g) :
            /\ i # paired_groups[g][2]
            /\ Score(paired_groups[g][1], i) = Score(paired_groups[g][1], paired_groups[g][2])

\* a voucher stays alone although an open invoice exists
C3_WitnessBelowThreshold ==
  /\ Paired
  /\ \E g \in VoucherGroups :
       /\ ~IsPair(g)
       /\ InvoiceSet \ ClaimedBefore(g) # {}

----------------------------------------------------------------------------
(* C4 *)

\* the effective date of a record: its service date, else its issue date
EffectiveDate(r) == IF r.service_date # <<>> THEN r.service_date ELSE r.date

IsDay(d) == d # <<>> /\ StrptimeOk(d)

\* both records carry a day, and the days are n apart
DaysApart(v, i, n) ==
  /\ IsDay(EffectiveDate(v))
  /\ IsDay(EffectiveDate(i))
  /\ Abs(Strptime(EffectiveDate(v)) - Strptime(EffectiveDate(i))) = n

Larger(a, b) == IF a >= b THEN a ELSE b

\* the amounts differ by at most pct percent of the larger one
AmountsWithin(v, i, pct) ==
  100 * Abs(v.amount - i.amount) <= pct * Larger(v.amount, i.amount)

BothPositive(v, i) == v.amount > 0 /\ i.amount > 0

\* the contributions of subtype or merchant, of the date and of the type
IdentitySignal(v, i) ==
  LET sameSubtype == _normalize_merchant(v.subtype) = _normalize_merchant(i.subtype)
      sameMerchant == _normalize_merchant(v.merchant) = _normalize_merchant(i.merchant)
  IN  CASE sameSubtype -> 3 [] ~sameSubtype /\ sameMerchant -> 2 [] OTHER -> 0

DateSignal(v, i) ==
  CASE DaysApart(v, i, 0) -> 2 [] DaysApart(v, i, 1) -> 1 [] OTHER -> 0

TypeSignal(v, i) == IF v.type = i.type THEN 1 ELSE 0

\* the contribution of the amounts as the table states it
AmountSignal(v, i) ==
  CASE AmountsWithin(v, i, 1) -> 3
    [] ~AmountsWithin(v, i, 1) /\ AmountsWithin(v, i, 5) -> 1
    [] OTHER -> 0

\* the contribution of the amounts, none unless both amounts are positive
PositiveAmountSignal(v, i) == IF BothPositive(v, i) THEN AmountSignal(v, i) ELSE 0

C4_WitnessMerchantOnly ==
  \E p \in DOMAIN scores :
    /\ scores[p] = 2
    /\ _normalize_merchant(infos[p[1]].subtype) # _normalize_merchant(infos[p[2]].subtype)

----------------------------------------------------------------------------
(* C5 *)

Returned == pc = "done"

\* the records of bucket b of the returned mapping
InBucket(b) == IF b \in DOMAIN categorized THEN Range(categorized[b]) ELSE {}

\* the group record k stands in
GroupOf(k) == paired_groups[(CHOOSE p \in PositionsOf(k) : TRUE)[1]]

LoneInvoice(k) == infos[k].is_invoice /\ Len(GroupOf(k)) = 1

HasVoucher(group) == \E j \in 1..Len(group) : ~infos[group[j]].is_invoice

\* C5: a lone formal invoice is in the pending bucket iff its service date is
\* empty, whatever its type; no member of a group that holds a voucher is in
\* the pending bucket.
C5_PendingRule ==
  Returned =>
    \A k \in DOMAIN infos :
      /\ LoneInvoice(k) =>
           (k \in InBucket(PENDING_CATEGORY) <=> infos[k].service_date = <<>>)
      /\ HasVoucher(GroupOf(k)) => k \notin InBucket(PENDING_CATEGORY)

\* a lone taxi invoice without service date went to pending, and a lone
\* invoice with a service date did not
C5_Witness ==
  /\ Returned
  /\ \E k \in DOMAIN infos :
       /\ LoneInvoice(k)
       /\ infos[k].type = "taxi"
       /\ infos[k].service_date = <<>>
       /\ infos[k].date # <<>>
       /\ k \in InBucket(PENDING_CATEGORY)
  /\ \E k \in DOMAIN infos :
       /\ LoneInvoice(k)
       /\ infos[k].service_date # <<>>
       /\ k \notin InBucket(PENDING_CATEGORY)

\* a pair whose invoice has no service date was placed
C5_WitnessPair ==
  /\ Returned
  /\ \E g \in DOMAIN paired_groups :
       IsPair(g) /\ infos[paired_groups[g][2]].service_date = <<>>

----------------------------------------------------------------------------
(* C6 *)

Pending(group) ==
  Len(group) = 1 /\ infos[group[1]].is_invoice /\ infos[group[1]].service_date = <<>>

\* the tag the rule of preference gives a group
PreferredTag(group) ==
  LET inv == {j \in 1..Len(group) : infos[group[j]].is_invoice
                                    /\ infos[group[j]].type # "other"}
      vou == {j \in 1..Len(group) : ~infos[group[j]].is_invoice
                                    /\ infos[group[j]].type # "other"}
  IN  IF inv # {} THEN infos[group[CHOOSE j \in inv : TRUE]].type
      ELSE IF vou # {} THEN infos[group[CHOOSE j \in vou : TRUE]].type
      ELSE "other"

\* C6: every member of a group that is not pending is in the bucket
\* INVOICE_CATEGORIES names for the invoice's tag if that is not "other", else
\* for the voucher's tag if that is not "other", else for "other".
C6_CategoryPreference ==
  Returned =>
    \A g \in DOMAIN paired_groups :
      LET group == paired_groups[g]
          tag == PreferredTag(group)
      IN  (~Pending(group) /\ tag \in DOMAIN INVOICE_CATEGORIES) =>
             \A j \in 1..Len(group) : group[j] \in InBucket(INVOICE_CATEGORIES[tag])

\* a pair of a voucher and an invoice of different types, neither "other",
\* went to the bucket of the invoice's type
C6_Witness ==
  /\ Returned
  /\ \E g \in DOMAIN paired_groups :
       /\ IsPair(g)
       /\ infos[paired_groups[g][1]].type = "bus"
       /\ infos[paired_groups[g][2]].type = "taxi"
       /\ paired_groups[g][1] \in InBucket("dachepiao")

\* the voucher's tag decided for an invoice tagged "other"
C6_WitnessVoucherDecides ==
  /\ Returned
  /\ \E g \in DOMAIN paired_groups :
       /\ IsPair(g)
       /\ infos[paired_groups[g][1]].type = "taxi"
       /\ infos[paired_groups[g][2]].type = "other"
       /\ paired_groups[g][2] \in InBucket("dachepiao")

----------------------------------------------------------------------------
(* C7 *)

BucketNames ==
  {"dachepiao", "huochefeijipiao", "zhusufei", "canfei", "qita", "daiqueren"}

RECURSIVE SumBuckets(_)
SumBuckets(bs) ==
  IF bs = {} THEN 0
  ELSE LET b == CHOOSE b \in bs : TRUE
       IN  Len(categorized[b]) + SumBuckets(bs \ {b})

\* C7: the mapping organize returns holds every record of the batch in
\* exactly one bucket list, N records in all, and its keys are among the six
\* bucket names.
C7_BucketsPartition ==
  Returned =>
    /\ DOMAIN categorized \subseteq BucketNames
    /\ SumBuckets(DOMAIN categorized) = Len(infos)
    /\ \A k \in DOMAIN infos :
         Cardinality({b \in DOMAIN categorized : k \in InBucket(b)}) = 1

\* a record whose type is outside the enumeration was returned with another
C7_Witness ==
  /\ Returned
  /\ Len(infos) >= 2
  /\ \E k \in DOMAIN infos :
       /\ infos[k].type = "bus"
       /\ ~(infos[k].is_invoice /\ infos[k].service_date = <<>>)
       /\ k \in InBucket("qita")

----------------------------------------------------------------------------
(* C8 *)

\* C8: when organize has returned, the file_path of every record is the path
\* its file was written to, so no two records report the same file_path.
C8_FilePathIsFinalPath ==
  Returned =>
    /\ \A n \in DOMAIN io_log : infos[io_log[n].info].file_path = io_log[n].dst
    /\ \A k, l \in DOMAIN infos : k # l => infos[k].file_path # infos[l].file_path

----------------------------------------------------------------------------
(* C9 *)

\* the placements up to the n-th whose computed destination is that of the n-th
SameTarget(n) == {m \in 1..n : io_log[m].target = io_log[n].target}

\* name for the first, name_1 for the second, name_2 for the third, ...
NthName(target, K) ==
  IF K = 1 THEN target
  ELSE [target EXCEPT !.stem = target.stem \o << <<ToString(K - 1)>> >>]

\* C9 as stated: the K-th record of those with one computed destination is
\* written to name_(K-1) (name itself for the first) after at most K
\* candidates, and no file is written where an earlier one was.
C9_AsStated ==
  \A n \in DOMAIN io_log :
    LET K == Cardinality(SameTarget(n))
    IN  /\ io_log[n].dst = NthName(io_log[n].target, K)
        /\ io_log[n].attempts <= K
        /\ \A m \in 1..(n - 1) : io_log[m].dst # io_log[n].dst

\* no file of another computed destination was written to a numbered name of
\* the n-th placement's destination
NoForeignFile(n) ==
  \A m \in 1..(n - 1) :
    io_log[m].target # io_log[n].target =>
      \A j \in 1..n : io_log[m].dst # NthName(io_log[n].target, j)

\* C9, amended: every file is written to the first free one of name, name_1,
\* name_2, ..., which no earlier file was written to, after at most one
\* candidate more than the folder held files, and every file written is
\* still there; the K-th record of those with one computed destination gets
\* name_(K-1) after K candidates when no other file holds one of these names.
C9_CollisionResolver ==
  \A n \in DOMAIN io_log :
    LET K == Cardinality(SameTarget(n))
        e == io_log[n]
    IN  /\ e.dst = NthName(e.target, e.attempts)
        /\ \A j \in 1..(e.attempts - 1) :
             \E m \in 1..(n - 1) : io_log[m].dst = NthName(e.target, j)
        /\ e.attempts <= e.in_folder + 1
        /\ \A m \in 1..(n - 1) : io_log[m].dst # e.dst
        /\ e.dst \in fs
        /\ NoForeignFile(n) => e.attempts = K

\* three files with one computed destination were placed, the third at name_2
C9_Witness ==
  \E n \in DOMAIN io_log :
    /\ Cardinality(SameTarget(n)) = 3
    /\ NoForeignFile(n)
    /\ io_log[n].attempts = 3
    /\ io_log[n].dst = NthName(io_log[n].target, 3)

\* a file named name_1 by its description stood in the way of the second
\* record of one computed destination
C9_WitnessForeignFile ==
  \E n \in DOMAIN io_log :
    /\ Cardinality(SameTarget(n)) = 2
    /\ ~NoForeignFile(n)
    /\ io_log[n].attempts = 3

----------------
(* C10 *)

\* the first date of the chain: the voucher's effective date, else the
\* invoice's, else none
ChainDate(group) ==
  LET vou == {j \in 1..Len(group) : ~infos[group[j]].is_invoice}
      inv == {j \in 1..Len(group) : infos[group[j]].is_invoice}
      vdate == IF vou = {} THEN <<>>
               ELSE EffectiveDate(infos[group[CHOOSE j \in vou : TRUE]])
      idate == IF inv = {} THEN <<>>
               ELSE EffectiveDate(infos[group[CHOOSE j \in inv : TRUE]])
  IN  IF vdate # <<>> THEN vdate ELSE idate

Naming == pc = "move"

\* C10: while a group is being named, its date is the voucher's effective
\* date if the group has a voucher with one, else the invoice's effective
\* date; the folder gets today's date, and the files none, only when the
\* group has no date at all.
C10_NamingDate ==
  Naming =>
    LET d == ChainDate(paired_groups[gi])
    IN  /\ group_date = d
        /\ folder_name[1] = IF d = <<>> THEN Today ELSE d

\* a pair whose voucher and invoice have different effective dates is named
\* by the voucher's
C10_Witness ==
  /\ Naming
  /\ IsPair(gi)
  /\ LET v == infos[paired_groups[gi][1]]
         i == infos[paired_groups[gi][2]]
     IN  /\ EffectiveDate(v) # <<>>
         /\ EffectiveDate(i) # <<>>
         /\ EffectiveDate(v) # EffectiveDate(i)
         /\ v.service_date = <<>>
         /\ folder_name[1] = v.date

\* a group without any date is named by today's date
C10_WitnessFallback ==
  /\ Naming
  /\ ChainDate(paired_groups[gi]) = <<>>
  /\ folder_name[1] = Today

----------------------------------------------------------------------------
(* C11 *)

\* a record as a hard extraction failure leaves it
IsFailureRecord(r) ==
  /\ r.type = "other"
  /\ ~r.is_invoice
  /\ r.amount = 0
  /\ r.date = <<>>
  /\ r.service_date = <<>>
  /\ r.merchant = <<>>

\* C11: when organize has returned, every record of a hard extraction
\* failure is in the mapping, in the bucket "qita" (other) and in no other
\* bucket, whatever else the batch holds.
C11_FailureRecordInOther ==
  Returned =>
    \A k \in DOMAIN infos :
      IsFailureRecord(infos[k]) =>
        {b \in DOMAIN categorized : k \in InBucket(b)} = {"qita"}

----------------------------------------------------------------------------
(* C12 *)

\* the four signals of a pair and what each contributed
Signals == {"identity", "date", "amount", "type"}

Contribution(sig, v, i) ==
  CASE sig = "identity" -> IdentitySignal(v, i)
    [] sig = "date"     -> DateSignal(v, i)
    [] sig = "amount"   -> PositiveAmountSignal(v, i)
    [] sig = "type"     -> TypeSignal(v, i)

Fired(v, i) == {sig \in Signals : Contribution(sig, v, i) > 0}

\* the sum of the contributions of the signals of S
RECURSIVE SumOf(_, _, _)
SumOf(S, v, i) ==
  IF S = {} THEN 0
  ELSE LET sig == CHOOSE sig \in S : TRUE
       IN  Contribution(sig, v, i) + SumOf(S \ {sig}, v, i)

\* C12: no signal alone forces a match, and none forbids one: a scored pair
\* in which exactly one signal fired does not reach the threshold of 2, and a
\* pair in which a signal contributed nothing reaches it whenever the other
\* signals sum to 2 or more.
C12_NoSignalDecides ==
  \A p \in DOMAIN scores :
    LET v == infos[p[1]]
        i == infos[p[2]]
    IN  /\ Cardinality(Fired(v, i)) = 1 => scores[p] < 2
        /\ \A sig \in Signals \ Fired(v, i) :
             SumOf(Signals \ {sig}, v, i) >= 2 => scores[p] >= 2

----------------------------------------------------------------------------
(* C13 *)

\* the fields a signal reads
SignalFields ==
  [subtype |-> {"subtype"}, date |-> {"service_date", "date"}, amount |-> {"amount"}]

ScoredFields == {"type", "subtype", "amount", "date", "service_date", "merchant"}

\* records r and r2 agree in every field the score reads but those of signal sig
SameBut(sig, r, r2) == \A f \in ScoredFields \ SignalFields[sig] : r[f] = r2[f]

\* signal sig matches perfectly
Perfect(sig, v, i) ==
  CASE sig = "subtype" -> _normalize_merchant(v.subtype) = _normalize_merchant(i.subtype)
    [] sig = "date"    -> EffectiveDate(v) = EffectiveDate(i)
    [] sig = "amount"  -> AmountsWithin(v, i, 1)

\* pair q is pair p with signal sig changed from not matching to matching perfectly
Improved(sig, p, q) ==
  /\ SameBut(sig, infos[p[1]], infos[q[1]])
  /\ SameBut(sig, infos[p[2]], infos[q[2]])
  /\ ~Perfect(sig, infos[p[1]], infos[p[2]])
  /\ Perfect(sig, infos[q[1]], infos[q[2]])

\* C13: of two scored pairs that differ only in that the subtype, the date or
\* the amount matches perfectly in the second and not in the first, the second
\* scores no less.
C13_ScoreMonotone ==
  \A p, q \in DOMAIN scores :
    \A sig \in DOMAIN SignalFields :
      Improved(sig, p, q) => scores[q] >= scores[p]

\* the merchants already agreed when the subtype came to match, and the score rose
C13_Witness ==
  \E p, q \in DOMAIN scores :
    /\ Improved("subtype", p, q)
    /\ IdentitySignal(infos[p[1]], infos[p[2]]) = 2
    /\ scores[q] = scores[p] + 1

\* a difference of one day became the same day
C13_WitnessDate ==
  \E p, q \in DOMAIN scores :
    /\ Improved("date", p, q)
    /\ DaysApart(infos[p[1]], infos[p[2]], 1)
    /\ scores[q] = scores[p] + 1

\* amounts within 5% came within 1%
C13_WitnessAmount ==
  \E p, q \in DOMAIN scores :
    /\ Improved("amount", p, q)
    /\ AmountsWithin(infos[p[1]], infos[p[2]], 5)
    /\ scores[q] = scores[p] + 2

----------------------------------------------------------------------------
(* C14 *)

\* a date string that is not empty and that strptime rejects
Unparseable(d) == d # <<>> /\ ~StrptimeOk(d)

\* the dates _calculate_match_score reads of pair p, one of them unparseable
BadDate(p) ==
  \/ Unparseable(EffectiveDate(infos[p[1]]))
  \/ Unparseable(EffectiveDate(infos[p[2]]))

\* C14: a pair with an unparseable date is scored all the same, by the sum of
\* what subtype or merchant, amount and type contribute and nothing for the
\* date; every voucher of the batch is scored against every invoice open at
\* its turn, gets its group, and is paired iff one of them scores 2 or more.
C14_UnparseableDate ==
  /\ \A p \in DOMAIN scores :
       BadDate(p) =>
         scores[p] = IdentitySignal(infos[p[1]], infos[p[2]])
                       + PositiveAmountSignal(infos[p[1]], infos[p[2]])
                       + TypeSignal(infos[p[1]], infos[p[2]])
  /\ Paired =>
       /\ \A v \in VoucherSet : \E g \in VoucherGroups : paired_groups[g][1] = v
       /\ \A g \in VoucherGroups :
            LET v == paired_groups[g][1]
                open == InvoiceSet \ ClaimedBefore(g)
            IN  /\ \A i \in open : <<v, i>> \in DOMAIN scores
                /\ IsPair(g) <=> \E i \in open : scores[<<v, i>>] >= 2

\* the first voucher has an unparseable date and stays alone; the voucher
\* after it is paired with the invoice
C14_Witness ==
  /\ Paired
  /\ \E g, h \in VoucherGroups :
       /\ g < h
       /\ Unparseable(EffectiveDate(infos[paired_groups[g][1]]))
       /\ ~IsPair(g)
       /\ IsPair(h)

\* both dates are the same unparseable string, and the other signals gave 7
C14_WitnessSameString ==
  \E p \in DOMAIN scores :
    /\ Unparseable(EffectiveDate(infos[p[1]]))
    /\ EffectiveDate(infos[p[1]]) = EffectiveDate(infos[p[2]])
    /\ scores[p] = 7

----------------------------------------------------------------------------
(* C15 *)

\* the fields of a record other than file_path
FrameFields ==
  {"type", "subtype", "amount", "date", "service_date", "merchant", "invoice_number",
   "is_invoice", "description"}

\* how often organize has assigned the file_path of record k: it appends the
\* record to its bucket with every assignment (lines 92-93)
Assignments(k) ==
  Cardinality({p \in {<<b, j>> : b \in DOMAIN categorized, j \in 1..Len(infos)} :
                 p[2] <= Len(categorized[p[1]]) /\ categorized[p[1]][p[2]] = k})

\* C15: no step of organize adds or removes a record or changes a field other
\* than file_path; the file_path of a record changes only in the one step
\* that assigns it, and when organize has returned every record has been
\* assigned exactly once.
C15_OnlyFilePath ==
  /\ [][/\ DOMAIN infos' = DOMAIN infos
        /\ \A k \in DOMAIN infos :
             /\ \A f \in FrameFields : infos'[k][f] = infos[k][f]
             /\ infos'[k].file_path # infos[k].file_path =>
                  Assignments(k) = 0 /\ Assignments(k)' = 1]_vars
  /\ [](Returned => \A k \in DOMAIN infos : Assignments(k) = 1)

\* organize has returned a batch of three with a pair in it, and every
\* file_path differs from the path the record came with
C15_Witness ==
  /\ Returned
  /\ Len(infos) = 3
  /\ \E g \in DOMAIN paired_groups : IsPair(g)
  /\ \A k \in DOMAIN infos :
       infos[k].file_path # SourcePath(k, infos[k].file_path.suffix)

----------------------------------------------------------------------------
(* C16 *)

\* organize has ended: by returning the mapping, or by an exception
Ended == pc \in {"done", "raised"}

\* C16: a failure of the file system while a file is placed does not keep
\* organize from returning: however organize ends, the caller gets the
\* mapping, and it holds every record of the batch in its bucket.
C16_FailureConfined ==
  Ended =>
    /\ Returned
    /\ \A k \in DOMAIN infos : Assignments(k) = 1

----------------------------------------------------------------------------
(* C17 *)

\* the groups organize has classified and named so far
NamedGroups == IF pc \in {"move", "raised"} THEN 1..gi ELSE 1..(gi - 1)

\* a file of the batch has been moved or copied, whole or in part
Touched == io_log # <<>> \/ \E f \in fs : f.parent # SourcePath(1, "").parent

\* C17: placement is the last step: when the first file of the batch is
\* moved or copied, every group of the batch has been classified and named.
C17_PlacementLast ==
  (Paired /\ Touched) => NamedGroups = DOMAIN paired_groups

----------------------------------------------------------------------------
(* C18 *)

\* the invoices no voucher claimed
Unclaimed == InvoiceSet \ {paired_groups[g][2] : g \in {g \in DOMAIN paired_groups : IsPair(g)}}

\* the number of records of S that stand before record k in the input
RankIn(S, k) == Cardinality({j \in S : j < k})

\* C18: the groups are, in this order, one group per voucher in the vouchers'
\* input order, its first member being the voucher, and then one group of one
\* per invoice no voucher claimed, in the invoices' input order; with C3,
\* which fixes the invoice of each voucher, this makes the list of groups a
\* function of the input list.
C18_OutputOrder ==
  Paired =>
    LET nv == Cardinality(VoucherSet)
    IN  /\ Len(paired_groups) = nv + Cardinality(Unclaimed)
        /\ \A g \in 1..nv :
             /\ paired_groups[g][1] \in VoucherSet
             /\ RankIn(VoucherSet, paired_groups[g][1]) = g - 1
        /\ \A g \in (nv + 1)..Len(paired_groups) :
             /\ Len(paired_groups[g]) = 1
             /\ paired_groups[g][1] \in Unclaimed
             /\ RankIn(Unclaimed, paired_groups[g][1]) = g - nv - 1

\* the input starts with an invoice that no voucher claims and goes on with
\* two vouchers: the invoice is emitted last
C18_Witness ==
  /\ Paired
  /\ Len(infos) = 3
  /\ VoucherSet = {2, 3}
  /\ paired_groups = << <<2>>, <<3>>, <<1>> >>

\* of two invoices the later one is claimed and the earlier one left over
C18_WitnessClaimedLater ==
  /\ Paired
  /\ paired_groups = << <<1, 3>>, <<2>> >>

----------------------------------------------------------------------------
(* C19 *)

\* C19: tasks are isolated: the text a task's OCR returns is that of its own
\* page image, and the analyzer that serves a task is configured with the
\* api_key the task passed, whatever other tasks ran before or run meanwhile.
C19_Isolated ==
  \A t \in DOMAIN task_pc :
    /\ task_pc[t] \in {"remove", "analyze", "done"} => ocr_text[t] = t
    /\ task_pc[t] = "done" => used_key[t] = api_key[t]

----------------------------------------------------------------------------
(* C20 *)

\* the two-digit prefixes of a pair
IndexOne == <<"0", "1">>

IndexTwo == <<"0", "2">>

\* the name starts with a two-digit index
HasIndexPrefix(path) == path.stem[1] \in {IndexOne, IndexTwo}

\* C20: the name a file is written under starts with a two-digit index iff
\* its group has more than one member; in a pair the voucher's name starts
\* with 01 and the invoice's with 02, so the two names of a pair differ and
\* the voucher's sorts first.
C20_IndexPrefix ==
  \A n \in DOMAIN io_log :
    LET e == io_log[n]
        group == GroupOf(e.info)
    IN  /\ HasIndexPrefix(e.dst) <=> Len(group) > 1
        /\ HasIndexPrefix(e.target) <=> Len(group) > 1
        /\ Len(group) > 1 =>
             /\ e.dst.stem[1] = IF infos[e.info].is_invoice THEN IndexTwo ELSE IndexOne
             /\ \A m \in DOMAIN io_log :
                  (m # n /\ GroupOf(io_log[m].info) = group) =>
                    /\ io_log[m].dst # e.dst
                    /\ io_log[m].dst.stem[1] # e.dst.stem[1]

\* both files of a pair have been written, the voucher's under 01 and the
\* invoice's under 02, and a file of a group of one under a name without index
C20_Witness ==
  /\ \E n, m \in DOMAIN io_log :
       /\ n < m
       /\ GroupOf(io_log[n].info) = GroupOf(io_log[m].info)
       /\ ~infos[io_log[n].info].is_invoice
       /\ io_log[n].dst.stem[1] = IndexOne
       /\ io_log[m].dst.stem[1] = IndexTwo
  /\ \E n \in DOMAIN io_log :
       Len(GroupOf(io_log[n].info)) = 1 /\ ~HasIndexPrefix(io_log[n].dst)

----------------------------------------------------------------------------
(* C21 *)

\* the record whose merchant and amount name the folder of a group: its
\* invoice, else its voucher
NamingRecord(group) ==
  LET inv == {j \in 1..Len(group) : infos[group[j]].is_invoice}
  IN  IF inv # {} THEN infos[group[CHOOSE j \in inv : TRUE]] ELSE infos[group[1]]

\* the fields present in the folder name of a group, in order
PresentFolderFields(group) ==
  LET r == NamingRecord(group)
      label == _sanitize_filename(IF r.subtype # <<>> THEN r.subtype ELSE r.merchant)
      d == ChainDate(group)
  IN  << (IF d = <<>> THEN Today ELSE d) >>
        \o (IF label # <<>> THEN <<Take(label, 20)>> ELSE <<>>)
        \o (IF r.amount > 0 THEN <<FormatAmount(r.amount)>> ELSE <<>>)

\* C21: the folder name of a group is made of its present fields only, in
\* the order date, sanitized subtype-or-merchant of at most 20 characters,
\* amount if positive; a field that is missing or empty after sanitization
\* is absent, so no component of the name is empty.
C21_FolderNameFields ==
  Naming =>
    /\ folder_name = PresentFolderFields(paired_groups[gi])
    /\ \A k \in DOMAIN folder_name : folder_name[k] # <<>>

\* a folder is named with an empty component between date and amount: the
\* subtype is "?", which sanitizes to nothing
C21_EmptyComponent ==
  /\ Naming
  /\ Len(folder_name) = 3
  /\ folder_name[2] = <<>>
  /\ NamingRecord(paired_groups[gi]).subtype = <<"?">>


----------------------------------------------------------------------------
(* Properties of LocalAnalyzer *)

\* the categories in the order the claim gives them
DetectionOrder == <<"taxi", "train", "flight", "hotel", "meal">>

\* some keyword the table lists for the category occurs in the text
Mentions(text, type) ==
  \E k \in DOMAIN CATEGORY_KEYWORDS :
     /\ CATEGORY_KEYWORDS[k].type_key = type
     /\ \E n \in DOMAIN CATEGORY_KEYWORDS[k].keywords :
          \E i \in 1..Len(text) :
             /\ i + Len(CATEGORY_KEYWORDS[k].keywords[n]) - 1 <= Len(text)
             /\ SubSeq(text, i, i + Len(CATEGORY_KEYWORDS[k].keywords[n]) - 1)
                  = CATEGORY_KEYWORDS[k].keywords[n]

\* the categories the text mentions, as positions of DetectionOrder
Mentioned(text) == {k \in DOMAIN DetectionOrder : Mentions(text, DetectionOrder[k])}

\* analyze has called _detect_type
Typed ==
  /\ analyze_pc \in {"amount", "date", "invoice_number", "is_invoice", "merchant", "return",
                     "done"}
  /\ "inv_type" \in DOMAIN analyze_frame

\* C22: the type LocalAnalyzer._detect_type returns is the earliest, in the
\* order taxi, train, flight, hotel, meal, of the categories that have a
\* keyword occurring in the text, and "other" when no category has one
C22_FirstCategoryWins ==
  Typed =>
    IF Mentioned(raw_text) = {} THEN analyze_frame.inv_type = "other"
    ELSE \E k \in Mentioned(raw_text) :
            /\ \A j \in Mentioned(raw_text) : k <= j
            /\ analyze_frame.inv_type = DetectionOrder[k]

\* a text that mentions a taxi keyword and a meal keyword was typed taxi
C22_Witness ==
  /\ Typed
  /\ {1, 5} \subseteq Mentioned(raw_text)
  /\ analyze_frame.inv_type = "taxi"

\* a text without any keyword was typed "other"
C22_WitnessOther ==
  /\ Typed
  /\ Len(raw_text) > 1
  /\ Mentioned(raw_text) = {}
  /\ analyze_frame.inv_type = "other"

\* the values of the matches of the p-th amount pattern in the text
MatchValues(text, p) ==
  LET matches == FindAll(AMOUNT_PATTERNS[p], text, 1)
  IN  {Float(matches[k]) : k \in DOMAIN matches}

\* those of them that are positive
PositiveValues(text, p) == {a \in MatchValues(text, p) : a # Zero}

\* a is the largest value of the set
Largest(a, values) == a \in values /\ \A b \in values : ~FloatLess(a, b)

\* analyze has called _extract_amount
Priced ==
  /\ analyze_pc \in {"date", "invoice_number", "is_invoice", "merchant", "return", "done"}
  /\ "amount" \in DOMAIN analyze_frame

\* C23 as stated: the amount is the largest positive match of the first
\* pattern of AMOUNT_PATTERNS that matches the text at all, and 0.0 when that
\* pattern has no positive match or no pattern matches
C23_FirstMatchingPattern ==
  Priced =>
    LET matching == {p \in DOMAIN AMOUNT_PATTERNS : MatchValues(raw_text, p) # {}}
    IN  IF matching = {} THEN analyze_frame.amount = Zero
        ELSE LET first == CHOOSE p \in matching : \A q \in matching : p <= q
             IN  IF PositiveValues(raw_text, first) = {} THEN analyze_frame.amount = Zero
                 ELSE Largest(analyze_frame.amount, PositiveValues(raw_text, first))

\* C23, amended: the amount is the largest positive match of the first
\* pattern of AMOUNT_PATTERNS that has a positive match (a pattern whose
\* matches are all zero is passed over), and 0.0 when no pattern has one
C23_FirstPositivePattern ==
  Priced =>
    LET useful == {p \in DOMAIN AMOUNT_PATTERNS : PositiveValues(raw_text, p) # {}}
    IN  IF useful = {} THEN analyze_frame.amount = Zero
        ELSE \E p \in useful :
                /\ \A q \in useful : p <= q
                /\ Largest(analyze_frame.amount, PositiveValues(raw_text, p))

\* the first pattern that matches found only zero, and the amount is a
\* positive match of a later pattern
C23_Witness ==
  /\ Priced
  /\ MatchValues(raw_text, 1) = {Zero}
  /\ analyze_frame.amount # Zero
  /\ analyze_frame.amount \in PositiveValues(raw_text, 2)

\* the deciding pattern has two positive matches, and the amount is the
\* second of them, the larger one
C23_WitnessLargest ==
  /\ Priced
  /\ Len(FindAll(AMOUNT_PATTERNS[1], raw_text, 1)) = 2
  /\ FloatLess(Zero, Float(FindAll(AMOUNT_PATTERNS[1], raw_text, 1)[1]))
  /\ FloatLess(Float(FindAll(AMOUNT_PATTERNS[1], raw_text, 1)[1]), analyze_frame.amount)

\* every match is zero, and the amount is 0.0
C23_WitnessZero ==
  /\ Priced
  /\ \E p \in DOMAIN AMOUNT_PATTERNS : MatchValues(raw_text, p) # {}
  /\ \A p \in DOMAIN AMOUNT_PATTERNS : PositiveValues(raw_text, p) = {}
  /\ analyze_frame.amount = Zero

\* the date pattern of the kind
DatePattern(kind) ==
  DATE_PATTERNS[CHOOSE p \in DOMAIN DATE_PATTERNS : DATE_PATTERNS[p].kind = kind]

\* the pattern matches somewhere in the text
DateMatches(kind, text) == \E i \in 1..Len(text) : DateMatchAt(DatePattern(kind), text, i) # <<>>

\* the groups of the leftmost match of the pattern
LeftmostDate(kind, text) ==
  DateMatchAt(DatePattern(kind), text,
              CHOOSE i \in 1..Len(text) :
                 /\ DateMatchAt(DatePattern(kind), text, i) # <<>>
                 /\ \A j \in 1..(i - 1) : DateMatchAt(DatePattern(kind), text, j) = <<>>)

\* d reads YYYY-MM-DD
IsoShaped(d) ==
  /\ Len(d) = 10
  /\ d[5] = "-" /\ d[8] = "-"
  /\ \A k \in {1, 2, 3, 4, 6, 7, 9, 10} : d[k] \in Digits

\* d is the ISO string of the groups (year, month, day)
BuiltFrom(d, groups) ==
  /\ IsoShaped(d)
  /\ SubSeq(d, 1, 4) = groups[1]
  /\ DigitsNum(SubSeq(d, 6, 7)) = DigitsNum(groups[2])
  /\ DigitsNum(SubSeq(d, 9, 10)) = DigitsNum(groups[3])

\* analyze has called _extract_date
Dated ==
  /\ analyze_pc \in {"invoice_number", "is_invoice", "merchant", "return", "done"}
  /\ "date" \in DOMAIN analyze_frame

\* analyze has returned the InvoiceInfo of a text that is not blank
Analyzed == analyze_pc = "done" /\ Strip(raw_text) # <<>>

\* C24: no exception leaves LocalAnalyzer.analyze; the date it extracts is
\* the zero-padded YYYY-MM-DD string of the leftmost match of the separated
\* pattern, of the compact pattern when the separated one does not match,
\* and "" when neither matches; and a text without a date gets the type,
\* amount, invoice number, formality and merchant the extractions give
C24_DateNeverRaises ==
  /\ analyze_pc # "raised"
  /\ Dated =>
       IF DateMatches("separated", raw_text)
       THEN BuiltFrom(analyze_frame.date, LeftmostDate("separated", raw_text))
       ELSE IF DateMatches("compact", raw_text)
            THEN BuiltFrom(analyze_frame.date, LeftmostDate("compact", raw_text))
            ELSE analyze_frame.date = <<>>
  /\ (Analyzed /\ analyze_frame.info.date = <<>>) =>
       /\ analyze_frame.info.type = _detect_type(raw_text)[1]
       /\ analyze_frame.info.subtype = _detect_type(raw_text)[2]
       /\ analyze_frame.info.amount = _extract_amount(raw_text)
       /\ analyze_frame.info.invoice_number = _extract_invoice_number(raw_text)
       /\ analyze_frame.info.is_invoice = _is_formal_invoice(raw_text)
       /\ analyze_frame.info.merchant = _extract_merchant(raw_text)

\* a text without a date was analyzed: its date is "", and it has a type
\* and an amount
C24_Witness ==
  /\ Analyzed
  /\ ~DateMatches("separated", raw_text) /\ ~DateMatches("compact", raw_text)
  /\ analyze_frame.info.date = <<>>
  /\ analyze_frame.info.type # "other"
  /\ analyze_frame.info.amount # Zero

\* a text without a date was analyzed, and it has an invoice number, is a
\* formal invoice, and has a merchant
C24_WitnessNumber ==
  /\ Analyzed
  /\ analyze_frame.info.date = <<>>
  /\ analyze_frame.info.invoice_number # <<>>
  /\ analyze_frame.info.is_invoice
  /\ analyze_frame.info.merchant # <<>>

\* a one-digit month and day were padded, and the separated pattern decided
\* although the compact one matches earlier in the text
C24_WitnessPadded ==
  /\ Dated
  /\ DateMatches("compact", raw_text)
  /\ analyze_frame.date = <<"2", "0", "2", "4", "-", "0", "1", "-", "0", "5">>
  /\ SubSeq(raw_text, 1, 8) = <<"2", "0", "2", "4", "0", "2", "1", "5">>

----------------------------------------------------------------------------
(* Properties of the summary *)

Summarized == pc = "summarized"

\* the formal invoices of the mapping organize returned
FormalInvoices ==
  {k \in DOMAIN infos : infos[k].is_invoice /\ \E b \in DOMAIN categorized : k \in InBucket(b)}

RECURSIVE AmountOf(_)
AmountOf(records) ==
  IF records = {} THEN 0
  ELSE LET k == CHOOSE k \in records : TRUE
       IN  infos[k].amount + AmountOf(records \ {k})

\* C25: the grand total of the run summary is the sum of the amounts of
\* exactly the formal invoices of the mapping organize returned: no voucher
\* amount is added and no formal invoice of any bucket is left out
C25_TotalOfFormalInvoices ==
  Summarized => total_amount = AmountOf(FormalInvoices)

\* a formal invoice stands in the pending bucket, and the total is the sum
\* of the formal invoices of the other buckets
C25_PendingLeftOut ==
  /\ Summarized
  /\ \E k \in InBucket(PENDING_CATEGORY) : infos[k].is_invoice /\ infos[k].amount > 0
  /\ total_amount = AmountOf(FormalInvoices \ InBucket(PENDING_CATEGORY))
  /\ total_amount < AmountOf(FormalInvoices)

----------------------------------------------------------------------------
(* C26, C27 *)

\* the bucket folder and subfolder a path lies in
FolderOf(path) == path.parent

\* entries n and m of the log are files of one group
SameGroup(n, m) == GroupOf(io_log[n].info) = GroupOf(io_log[m].info)

\* C26: the bucket and the subfolder are computed once per group, they do
\* not change while the files of the group are placed; the files of one
\* group are written to one subfolder of one bucket folder and their records
\* are appended to one bucket list; and when organize returns, the two
\* records of every pair stand in the same bucket list
C26_PairTogether ==
  /\ [][(pc = "move" /\ pc' = "move") =>
          (gi' = gi /\ category_name' = category_name /\ folder_name' = folder_name)]_vars
  /\ [](\A n, m \in DOMAIN io_log :
          SameGroup(n, m) =>
            /\ FolderOf(io_log[n].target) = FolderOf(io_log[m].target)
            /\ FolderOf(io_log[n].dst) = FolderOf(io_log[m].dst)
            /\ \A b \in DOMAIN categorized :
                 io_log[n].info \in InBucket(b) <=> io_log[m].info \in InBucket(b))
  /\ [](Returned =>
          \A g \in DOMAIN paired_groups :
            IsPair(g) =>
              /\ \E b \in DOMAIN categorized :
                   {paired_groups[g][1], paired_groups[g][2]} \subseteq InBucket(b)
              /\ FolderOf(infos[paired_groups[g][1]].file_path)
                   = FolderOf(infos[paired_groups[g][2]].file_path))

\* organize has returned a pair whose invoice has no service date: both
\* records stand in the bucket of the pair, in one subfolder
C26_Witness ==
  /\ Returned
  /\ \E g \in DOMAIN paired_groups :
       /\ IsPair(g)
       /\ infos[paired_groups[g][2]].service_date = <<>>
       /\ {paired_groups[g][1], paired_groups[g][2]} \subseteq InBucket("dachepiao")
       /\ FolderOf(infos[paired_groups[g][1]].file_path)
            = FolderOf(infos[paired_groups[g][2]].file_path)
  /\ \E n, m \in DOMAIN io_log : n # m /\ SameGroup(n, m)

\* the date part of a file name: the part after the index, if it is not the
\* document kind; <<>> if the name has none
FileDatePart(path) ==
  LET k == IF path.stem[1] \in {IndexOne, IndexTwo} THEN 2 ELSE 1
  IN  IF path.stem[k] \in {<<"fapiao">>, <<"pingzheng">>} THEN <<>> ELSE path.stem[k]

\* the date part of the subfolder a path lies in
FolderDatePart(path) == path.parent[2][1]

\* C27: the date part of the name of every file placed equals the date part
\* of the name of the subfolder it is placed in, also for a group none of
\* whose records has a service or issue date
C27_SameDatePart ==
  \A n \in DOMAIN io_log : FileDatePart(io_log[n].target) = FolderDatePart(io_log[n].target)

\* a file of a group without any date was placed: its subfolder is named
\* with today's date and its name has no date part
C27_NoDateInName ==
  \E n \in DOMAIN io_log :
     /\ \A j \in DOMAIN GroupOf(io_log[n].info) :
          EffectiveDate(infos[GroupOf(io_log[n].info)[j]]) = <<>>
     /\ FolderDatePart(io_log[n].target) = Today
     /\ FileDatePart(io_log[n].target) = <<>>

\* the other groups: a file of a group that has a date carries it, as its
\* subfolder does
C27_DatedGroups ==
  \A n \in DOMAIN io_log :
     ChainDate(GroupOf(io_log[n].info)) # <<>> =>
       FileDatePart(io_log[n].target) = FolderDatePart(io_log[n].target)

----------------------------------------------------------------------------
(* Properties of the web tasks *)

\* the paths of task t that exist
PathsOf(t) == {f \in disk : f[2] = t}

\* a delayed cleanup of task t has been scheduled
Scheduled(t) ==
  \E c \in DOMAIN cleaners : cleaners[c].task = t /\ cleaners[c].kind = "delayed"

\* the thread of task t has left process_task, and every cleanup thread of
\* the task has run
Settled(t) ==
  /\ proc_pc[t] = "ended"
  /\ \A c \in DOMAIN cleaners : cleaners[c].task = t => cleaners[c].pc = "done"

\* C28: a request to /status or /download is answered from the task or with
\* 404, it never fails with the KeyError of a lookup of an entry that a
\* cleanup deleted after the request had found it in tasks
C28_NoLostEntry ==
  \A r \in DOMAIN reqs : reqs[r].result # "KeyError"

\* a cleanup thread that held tasks_lock deleted the task between the
\* membership test and the lookup of a request
C28_EntryLost ==
  \E r \in DOMAIN reqs :
     /\ reqs[r].result = "KeyError"
     /\ deleted[reqs[r].task] = 1
     /\ ~exited

\* C29: when process_task has ended, a delayed cleanup of the task has been
\* scheduled; no task is deleted from tasks more than once; and when the
\* threads of a task have run, the task is not in tasks and none of its
\* directories and files exists
C29_EveryTaskCleaned ==
  \A t \in DOMAIN task :
     /\ proc_pc[t] = "ended" => Scheduled(t)
     /\ deleted[t] <= 1
     /\ Settled(t) => (t \notin tasks /\ PathsOf(t) = {})

\* process_task has ended in the status error without a cleanup: the task
\* stays in tasks and its directories stay on disk, with no thread left
C29_NeverCleaned ==
  \E t \in DOMAIN task :
     /\ Settled(t) /\ ~Scheduled(t)
     /\ task[t].status = "error"
     /\ t \in tasks
     /\ {<<"temp_dir", t>>, <<"output_dir", t>>} \subseteq disk
     /\ ~exited

\* a task was cleaned after the writing of its zip file failed: the file is
\* left on disk
C29_ZipLeft ==
  \E t \in DOMAIN task :
     /\ Settled(t) /\ deleted[t] = 1
     /\ PathsOf(t) = {<<"zip_path", t>>}

\* the part of C29 that holds: a task is deleted from tasks at most once
C29_AtMostOnce ==
  \A t \in DOMAIN task : deleted[t] <= 1

\* the delayed and the quick cleanup of one task have both run
C29_BothCleanups ==
  \E c, d \in DOMAIN cleaners :
     /\ cleaners[c].task = cleaners[d].task
     /\ cleaners[c].kind = "delayed" /\ cleaners[d].kind = "quick"
     /\ cleaners[c].pc = "done" /\ cleaners[d].pc = "done"
     /\ deleted[cleaners[c].task] = 1

FinalStatuses == {"completed", "error"}

\* the place of a status in the order
Rank(status) == CHOOSE k \in DOMAIN StatusOrder : StatusOrder[k] = status

\* a step from status a to status b the claim allows
Forward(a, b) ==
  \/ b = a
  \/ a \notin FinalStatuses /\ b = "error"
  \/ a \notin FinalStatuses /\ b # "error" /\ Rank(b) = Rank(a) + 1

\* request r gets the zip file in this step
Serves(r) ==
  /\ reqs'[r].result = "zip"
  /\ (r \in DOMAIN reqs => reqs[r].result # "zip")

C30_WitnessRefused ==
  \E r \in DOMAIN reqs :
     /\ reqs[r].result = "400"
     /\ task[reqs[r].task].status = "packing"
     /\ task[reqs[r].task].zip_path

\* a task went from queued to error, and one from packing to error
C30_WitnessError ==
  \E t \in DOMAIN task :
     /\ task[t].status = "error"
     /\ proc_pc[t] = "ended"
     /\ supported[t]
     /\ <<"zip_path", t>> \in disk
====
